---- MODULE Spec2Model ----
(***************************************************************************)
(* Block template assembly (BlockAssembler), the scrypt nonce searcher     *)
(* (ScanScryptHash) and the mining worker (CoinMiner, ProcessBlockFound)   *)
(* of src/src/miner.cpp.                                                   *)
(*                                                                         *)
(* Three specifications share this module:                                 *)
(*   SpecAsm   one BlockAssembler::CreateNewBlock call over a mempool      *)
(*             snapshot, one step per pass of the selection loop;          *)
(*   SpecScan  one call of ScanScryptHash, one step per hash evaluated;    *)
(*   SpecMiner the CoinMiner worker against a chain tip that other actors  *)
(*             advance.                                                    *)
(***************************************************************************)
EXTENDS Integers, Sequences, FiniteSets, TLC

(***************************************************************************)
(* Bounds of the model.                                                    *)
(***************************************************************************)
\* number of entries of the mempool snapshot
MaxTx == 4
\* number of CoinMiner workers
MaxWorkers == 1
\* height the chain tip may reach
MaxTip == 2
\* largest value of the adjusted clock
MaxTime == 2

(***************************************************************************)
(* Program constants.                                                      *)
(***************************************************************************)
WITNESS_SCALE_FACTOR == 4
MAX_BLOCK_WEIGHT == 4000000
MAX_BLOCK_SIGOPS_COST == 80000
MAX_CONSECUTIVE_FAILURES == 1000
\* weight and sig-op cost reserved for the coinbase by resetBlock
CoinbaseWeight == 4000
CoinbaseSigOps == 400

VARIABLES
    \* ---- mempool snapshot and configuration of one assembly ----
    pool,               \* the mempool's entries: entry id -> entry record
    mapTx,              \* the ancestor_score index of mempool.mapTx
    optMaxWeight,       \* options.nBlockMaxWeight as configured
    nBlockMaxWeight,    \* BlockAssembler::nBlockMaxWeight (clamped)
    blockMinFeeRate,    \* BlockAssembler::blockMinFeeRate, per size unit
    fIncludeWitness,    \* value CreateNewBlock computes for fIncludeWitness
    \* ---- BlockAssembler state ----
    apc,                \* position inside CreateNewBlock
    inBlock,
    nBlockWeight,
    nBlockSigOpsCost,
    nBlockTx,
    nFees,
    nHeight,
    vtx,                \* pblock->vtx, 0 is the coinbase
    vTxFees,
    vTxSigOpsCost,
    coinbaseValue,      \* vtx[0]->vout[0].nValue
    \* ---- locals of addPackageTxs ----
    mapModifiedTx,      \* entry id -> [size, fees, sigops]
    failedTx,
    mi,                 \* cursor into the ancestor_score index, 1..n+1
    nConsecutiveFailed,
    nPackagesSelected,
    \* ---- history of the last pass of the loop ----
    lastStep,
    lastIter,
    lastUsingModified,
    \* ---- the node around the workers ----
    chainTip,           \* chainActive.Tip(): the tip's height, which names it
    nAdjustedTime,      \* GetAdjustedTime()
    fReady,             \* GetNodeCount() > 0 && ! IsInitialBlockDownload()
    network,            \* the chain the parameters are of
    hashPrevBlock,      \* the function-static of IncrementExtraNonce
    processed,          \* history: the last call of ProcessNewBlock
    \* ---- locals of CoinMiner, one value per worker ----
    pc,                 \* position of the worker
    pindexPrev,
    pblock,             \* the template's block
    nExtraNonce,
    hashesScanned,
    solutionHash,
    hash,
    nNonce,
    fKept,              \* coinbaseScript->KeepScript() was called
    tipAtCheck,         \* history: the tip ProcessBlockFound compared with
    \* ---- frame of ScanScryptHash, one per worker ----
    blockHeader,        \* the by-value copy of the header
    firstLEZeroByte,
    scanResult,         \* the value returned
    atCall,             \* history: nonce, counter, buffer at the call and
                        \* the number of hashes evaluated since
    \* ---- the thread group of GenerateCoins ----
    minerThreads,       \* << >> for nullptr, << S >> for a group of threads S
    interruptRequested, \* per thread: interrupt() was called on it
    generated,          \* history: the last call of GenerateCoins
    \* ---- history of each worker ----
    ok,                 \* what the last ProcessBlockFound came to
    validationState,    \* what TestBlockValidity said of the last template
    lastPrev,           \* hashPrevBlock of the last template the worker bumped
    scansInterrupted    \* searcher calls entered with the interrupt pending

asmVars == << pool, mapTx, optMaxWeight, nBlockMaxWeight, blockMinFeeRate,
              fIncludeWitness, apc, inBlock, nBlockWeight,
              nBlockSigOpsCost, nBlockTx, nFees, nHeight, vtx, vTxFees,
              vTxSigOpsCost, coinbaseValue, mapModifiedTx, failedTx, mi,
              nConsecutiveFailed, nPackagesSelected, lastStep, lastIter, lastUsingModified >>

nodeVars == << chainTip, nAdjustedTime, fReady, network, hashPrevBlock,
              processed >>
callerVars == << pindexPrev, pblock, nExtraNonce, solutionHash, fKept,
                 tipAtCheck >>
workerVars == << pc, callerVars >>
scanVars == << hashesScanned, hash, nNonce, blockHeader, firstLEZeroByte,
               scanResult, atCall >>
superVars == << minerThreads, interruptRequested, generated >>
historyVars == << ok, validationState, lastPrev, scansInterrupted >>
minerVars == << nodeVars, workerVars, scanVars, superVars, historyVars >>

vars == << asmVars, minerVars >>

(***************************************************************************)
(* Generic helpers.                                                        *)
(***************************************************************************)
Max(a, b) == IF a >= b THEN a ELSE b
Min(a, b) == IF a <= b THEN a ELSE b

RECURSIVE SumOver(_, _)
\* sum of f[x] over the finite set S
SumOver(S, f) ==
    IF S = {} THEN 0
    ELSE LET x == CHOOSE y \in S : TRUE IN f[x] + SumOver(S \ {x}, f)

SeqToSet(s) == { s[i] : i \in 1..Len(s) }

(***************************************************************************)
(* The mempool (external collaborator): entries with their individual      *)
(* attributes, the in-mempool parent relation and the cached ancestor      *)
(* aggregates.                                                             *)
(***************************************************************************)
\* Individual attributes an entry may have, by profile number.  size is the virtual size
\* (GetTxSize), weight the weight (GetTxWeight); weight <= 4 * size, and
\* the virtual size of an entry with many sig-ops exceeds weight / 4.
Profiles ==
    << [size |-> 100, weight |-> 400, fee |-> 1000, modfee |-> 1000, sigops |-> 4,     final |-> TRUE,  witness |-> FALSE],
       [size |-> 250, weight |-> 200, fee |-> 250,  modfee |-> 250,  sigops |-> 50,    final |-> TRUE,  witness |-> FALSE],
       [size |-> 40,  weight |-> 160, fee |-> 30,   modfee |-> 0,    sigops |-> 4,     final |-> TRUE,  witness |-> FALSE],
       [size |-> 100, weight |-> 400, fee |-> 1000, modfee |-> 1000, sigops |-> 39800, final |-> TRUE,  witness |-> TRUE],
       [size |-> 100, weight |-> 400, fee |-> 1000, modfee |-> 1000, sigops |-> 4,     final |-> FALSE, witness |-> FALSE] >>

Tx == DOMAIN pool

\* CTxMemPool::CalculateMemPoolAncestors without limits: all in-mempool
\* ancestors of x, x excluded
Ancestors(x) == pool[x].ancestors

\* CTxMemPool::CalculateDescendants: x and all its in-mempool descendants
CalculateDescendants(x) == { x } \cup { d \in Tx : x \in Ancestors(d) }

GetTxSize == [x \in Tx |-> Profiles[pool[x].p].size]
GetTxWeight == [x \in Tx |-> Profiles[pool[x].p].weight]
GetFee == [x \in Tx |-> Profiles[pool[x].p].fee]
GetModifiedFee == [x \in Tx |-> Profiles[pool[x].p].modfee]
GetSigOpCost == [x \in Tx |-> Profiles[pool[x].p].sigops]
\* IsFinalTx(tx, nHeight, nLockTimeCutoff) and tx.HasWitness()
IsFinalTx(x) == Profiles[pool[x].p].final
HasWitness(x) == Profiles[pool[x].p].witness

\* cached ancestor aggregates of the mempool entry (x included)
GetCountWithAncestors(x) == pool[x].nCountWithAncestors
GetSizeWithAncestors(x) == pool[x].nSizeWithAncestors
GetModFeesWithAncestors(x) == pool[x].nModFeesWithAncestors
GetSigOpCostWithAncestors(x) == pool[x].nSigOpCostWithAncestors

\* CTxMemPoolModifiedEntry(entry): the overlay record of x with the
\* mempool's aggregates
CTxMemPoolModifiedEntry(x) ==
    [ size   |-> GetSizeWithAncestors(x),
      fees   |-> GetModFeesWithAncestors(x),
      sigops |-> GetSigOpCostWithAncestors(x) ]

\* CompareTxMemPoolEntryByAncestorFee: a sorts before b when its ancestor
\* fee rate is higher (compared by cross multiplication), ties by identity
CompareTxMemPoolEntryByAncestorFee(aFees, aSize, a, bFees, bSize, b) ==
    LET f1 == aFees * bSize
        f2 == aSize * bFees
    IN  IF f1 = f2 THEN a < b ELSE f1 > f2

\* order of two mempool entries in the ancestor_score index of mapTx
MapTxLess(a, b) ==
    CompareTxMemPoolEntryByAncestorFee(
        GetModFeesWithAncestors(a), GetSizeWithAncestors(a), a,
        GetModFeesWithAncestors(b), GetSizeWithAncestors(b), b)

\* the elements of the finite set S as a sequence ordered by the strict
\* total order Less
SortBy(S, Less(_, _)) ==
    [ i \in 1..Cardinality(S) |->
        CHOOSE x \in S : Cardinality({ y \in S \ {x} : Less(y, x) }) = i - 1 ]

\* mempool.mapTx.get<ancestor_score>() as a sequence, best first
AncestorScoreIndex == mapTx

\* CFeeRate::GetFee: the fee the rate asks for a package of this size
MinFeeFor(size) == blockMinFeeRate * size

\* GetBlockSubsidy(nHeight, consensus)
GetBlockSubsidy(h) == IF h <= 100 THEN 50 ELSE 25

(***************************************************************************)
(* BlockAssembler.                                                         *)
(***************************************************************************)
\* size_t: an unsigned value of 64 bits in four limbs of 16 bits, the most
\* significant first
Limb == 65536

\* the conversion of a signed value to size_t: a negative value wraps
\* around (two's complement)
ToSizeT(n) ==
    IF n >= 0 THEN << 0, 0, n \div Limb, n % Limb >>
    ELSE LET m == -n - 1
         IN  << Limb - 1, Limb - 1, Limb - 1 - (m \div Limb),
                Limb - 1 - (m % Limb) >>

\* a < b for size_t values
SizeTLess(a, b) ==
    \E i \in 1..4 : a[i] < b[i] /\ \A j \in 1..(i - 1) : a[j] = b[j]

\* std::min<size_t> and std::max<size_t>
SizeTMin(a, b) == IF SizeTLess(b, a) THEN b ELSE a
SizeTMax(a, b) == IF SizeTLess(a, b) THEN b ELSE a

\* a size_t value below 2^31 as a number
FromSizeT(a) == a[3] * Limb + a[4]

\* the limits applied to the signed value
ClampMaxWeight_Signed(opt) == Max(4000, Min(MAX_BLOCK_WEIGHT - 4000, opt))

\* line 78: std::max<size_t>(4000, std::min<size_t>(MAX_BLOCK_WEIGHT - 4000,
\* options.nBlockMaxWeight))
ClampMaxWeight(opt) ==
    FromSizeT(SizeTMax(ToSizeT(4000),
                       SizeTMin(ToSizeT(MAX_BLOCK_WEIGHT - 4000), ToSizeT(opt))))

\* onlyUnconfirmed erasing every entry it visits
onlyUnconfirmed_EraseAll(testSet) == {}

\* BlockAssembler::onlyUnconfirmed: drop what is already in the block
onlyUnconfirmed(testSet) == { x \in testSet : x \notin inBlock }

\* TestPackage without the sig-op test
TestPackage_NoSigOps(packageSize, packageSigOpsCost) ==
    IF nBlockWeight + WITNESS_SCALE_FACTOR * packageSize >= nBlockMaxWeight
    THEN FALSE
    ELSE TRUE

\* BlockAssembler::TestPackage
TestPackage(packageSize, packageSigOpsCost) ==
    IF nBlockWeight + WITNESS_SCALE_FACTOR * packageSize >= nBlockMaxWeight
    THEN FALSE
    ELSE IF nBlockSigOpsCost + packageSigOpsCost >= MAX_BLOCK_SIGOPS_COST
    THEN FALSE
    ELSE TRUE

\* BlockAssembler::TestPackageTransactions
TestPackageTransactions(package) ==
    \A it \in package :
        /\ IsFinalTx(it)
        /\ ~(~fIncludeWitness /\ HasWitness(it))

\* The part of the assembler that AddToBlock changes, as one record.
BlockState ==
    [ vtx |-> vtx, vTxFees |-> vTxFees, vTxSigOpsCost |-> vTxSigOpsCost,
      nBlockWeight |-> nBlockWeight, nBlockTx |-> nBlockTx,
      nBlockSigOpsCost |-> nBlockSigOpsCost, nFees |-> nFees,
      inBlock |-> inBlock ]

\* AddToBlock accumulating the modified fee into nFees
AddToBlock_ModifiedFee(b, iter) ==
    [ vtx              |-> Append(b.vtx, iter),
      vTxFees          |-> Append(b.vTxFees, GetFee[iter]),
      vTxSigOpsCost    |-> Append(b.vTxSigOpsCost, GetSigOpCost[iter]),
      nBlockWeight     |-> b.nBlockWeight + GetTxWeight[iter],
      nBlockTx         |-> b.nBlockTx + 1,
      nBlockSigOpsCost |-> b.nBlockSigOpsCost + GetSigOpCost[iter],
      nFees            |-> b.nFees + GetModifiedFee[iter],
      inBlock          |-> b.inBlock \cup {iter} ]

\* BlockAssembler::AddToBlock
AddToBlock(b, iter) ==
    [ vtx              |-> Append(b.vtx, iter),
      vTxFees          |-> Append(b.vTxFees, GetFee[iter]),
      vTxSigOpsCost    |-> Append(b.vTxSigOpsCost, GetSigOpCost[iter]),
      nBlockWeight     |-> b.nBlockWeight + GetTxWeight[iter],
      nBlockTx         |-> b.nBlockTx + 1,
      nBlockSigOpsCost |-> b.nBlockSigOpsCost + GetSigOpCost[iter],
      nFees            |-> b.nFees + GetFee[iter],
      inBlock          |-> b.inBlock \cup {iter} ]

\* update_for_parent_inclusion: take the parent's own size, modified fee
\* and sig-op cost out of an overlay record
update_for_parent_inclusion(e, it) ==
    [ size   |-> e.size - GetTxSize[it],
      fees   |-> e.fees - GetModifiedFee[it],
      sigops |-> e.sigops - GetSigOpCost[it] ]

\* The inner loop of UpdatePackagesForAdded for one added entry it.
UpdateDescendantsOf(it, alreadyAdded, mod) ==
    LET touched == { desc \in CalculateDescendants(it) : desc \notin alreadyAdded }
    IN  [ d \in DOMAIN mod \cup touched |->
            IF d \in touched
            THEN IF d \notin DOMAIN mod
                 THEN update_for_parent_inclusion(CTxMemPoolModifiedEntry(d), it)
                 ELSE update_for_parent_inclusion(mod[d], it)
            ELSE mod[d] ]

RECURSIVE UpdateLoop(_, _, _)
UpdateLoop(todo, alreadyAdded, mod) ==
    IF todo = {} THEN mod
    ELSE LET it == CHOOSE x \in todo : TRUE
         IN  UpdateLoop(todo \ {it}, alreadyAdded,
                        UpdateDescendantsOf(it, alreadyAdded, mod))

\* BlockAssembler::UpdatePackagesForAdded: the overlay after alreadyAdded
\* went into the block
UpdatePackagesForAdded(alreadyAdded, mod) ==
    UpdateLoop(alreadyAdded, alreadyAdded, mod)

\* BlockAssembler::SkipMapTxEntry
SkipMapTxEntry(it, mod, failed) ==
    it \in DOMAIN mod \/ it \in inBlock \/ it \in failed

\* CompareTxIterByAncestorCount: fewer ancestors first, ties by identity
CompareTxIterByAncestorCount(a, b) ==
    IF GetCountWithAncestors(a) # GetCountWithAncestors(b)
    THEN GetCountWithAncestors(a) < GetCountWithAncestors(b)
    ELSE a < b

\* SortForBlock with the comparison turned around
SortForBlock_Descending(package) ==
    SortBy(package, LAMBDA a, b : CompareTxIterByAncestorCount(b, a))

\* BlockAssembler::SortForBlock
SortForBlock(package) == SortBy(package, CompareTxIterByAncestorCount)

RECURSIVE AddAll(_, _, _)
\* the loop over sortedEntries in addPackageTxs
AddAll(b, sortedEntries, i) ==
    IF i > Len(sortedEntries) THEN b
    ELSE AddAll(AddToBlock(b, sortedEntries[i]), sortedEntries, i + 1)

(***************************************************************************)
(* addPackageTxs: the choice of the next candidate.                        *)
(***************************************************************************)
MiAtEnd == mi > Cardinality(Tx)

\* order of two overlay entries in the ancestor_score index of
\* mapModifiedTx
ModifiedLess(a, b) ==
    CompareTxMemPoolEntryByAncestorFee(
        mapModifiedTx[a].fees, mapModifiedTx[a].size, a,
        mapModifiedTx[b].fees, mapModifiedTx[b].size, b)

\* mapModifiedTx.get<ancestor_score>().begin()
BestModified ==
    CHOOSE x \in DOMAIN mapModifiedTx :
        \A y \in DOMAIN mapModifiedTx \ {x} : ModifiedLess(x, y)

\* the while condition of the selection loop
LoopCondition == ~MiAtEnd \/ DOMAIN mapModifiedTx # {}

\* the loop's first test: the entry under the cursor is stale
AtStaleEntry ==
    /\ ~MiAtEnd
    /\ SkipMapTxEntry(AncestorScoreIndex[mi], mapModifiedTx, failedTx)

\* the choice that never looks at mapModifiedTx while mapTx has entries left
Candidate_MempoolSide ==
    IF MiAtEnd
    THEN [ iter |-> BestModified, fUsingModified |-> TRUE, advance |-> FALSE ]
    ELSE [ iter |-> AncestorScoreIndex[mi], fUsingModified |-> FALSE,
           advance |-> TRUE ]

\* lines 349-371: which entry to evaluate, and whether the cursor moves
Candidate ==
    IF MiAtEnd
    THEN [ iter |-> BestModified, fUsingModified |-> TRUE, advance |-> FALSE ]
    ELSE LET it == AncestorScoreIndex[mi]
         IN  IF /\ DOMAIN mapModifiedTx # {}
                /\ CompareTxMemPoolEntryByAncestorFee(
                       mapModifiedTx[BestModified].fees,
                       mapModifiedTx[BestModified].size, BestModified,
                       GetModFeesWithAncestors(it), GetSizeWithAncestors(it), it)
             THEN [ iter |-> BestModified, fUsingModified |-> TRUE, advance |-> FALSE ]
             ELSE [ iter |-> it, fUsingModified |-> FALSE, advance |-> TRUE ]

\* lines 377-384: the aggregates the candidate is judged by
PackageOf(c) ==
    IF c.fUsingModified THEN mapModifiedTx[c.iter]
    ELSE CTxMemPoolModifiedEntry(c.iter)

\* the fee floor with <= for <
BelowFeeFloor_Inclusive(packageFees, packageSize) ==
    packageFees <= MinFeeFor(packageSize)

\* line 386: the fee floor
BelowFeeFloor(packageFees, packageSize) == packageFees < MinFeeFor(packageSize)

\* lines 410-416: the candidate with its ancestors that are not in the block
ExpandPackage(iter) == onlyUnconfirmed(Ancestors(iter)) \cup {iter}

\* an erase that erases nothing
EraseModified_Nothing(mod, S) == mod

\* mapModifiedTx without the entries of S
EraseModified(mod, S) == [ d \in DOMAIN mod \ S |-> mod[d] ]

(***************************************************************************)
(* Data of the miner: 32-bit counters, 256-bit values, headers.            *)
(***************************************************************************)
Workers == 1..MaxWorkers

\* a uint32_t as its upper 20 bits and its lower 12 bits
SliceSize == 4096
HighLimit == 1048576
U32(hi, lo) == [ hi |-> hi, lo |-> lo ]

\* n + 1 and n + k (k <= SliceSize) in uint32_t arithmetic
U32Inc(n) ==
    IF n.lo + 1 < SliceSize THEN [ n EXCEPT !.lo = n.lo + 1 ]
    ELSE U32((n.hi + 1) % HighLimit, 0)
U32Add(n, k) ==
    U32((n.hi + ((n.lo + k) \div SliceSize)) % HighLimit, (n.lo + k) % SliceSize)

\* n & 0xfff
Low12(n) == n.lo

\* a uint256 as its 32 bytes; byte j of the source (0 the least
\* significant) is element j + 1
Uint256Bytes == 32
ZeroHash == [ j \in 1..Uint256Bytes |-> 0 ]

\* the highest element in which a and b differ, 0 if a = b
TopDifference(a, b) ==
    LET D == { j \in 1..Uint256Bytes : a[j] # b[j] }
    IN  IF D = {} THEN 0 ELSE CHOOSE j \in D : \A k \in D : k <= j

\* UintToArith256( a ) <= UintToArith256( b )
LessOrEqual256(a, b) ==
    LET j == TopDifference(a, b) IN j = 0 \/ a[j] < b[j]

\* a block with no content yet
NoBlock == [ hashPrevBlock |-> 0, hashMerkleRoot |-> 0, nTime |-> 0,
             nBits |-> 0, nNonce |-> U32(0, 0), nHeight |-> 0 ]
NoCall == [ nNonce |-> U32(0, 0), hashesScanned |-> U32(0, 0),
            hash |-> ZeroHash, evals |-> 0 ]
NotProcessed == [ called |-> FALSE, hashPrevBlock |-> 0, tipAtCheck |-> 0,
                  tipAtCall |-> 0 ]
\* no call of GenerateCoins yet
NoGenerate == [ calls |-> 0, fGenerate |-> FALSE, nThreads |-> 0 ]

\* the node before any worker has run
NodeIdle ==
    /\ chainTip = 1
    /\ nAdjustedTime = 0
    /\ fReady = FALSE
    /\ hashPrevBlock = 0
    /\ processed = NotProcessed
    /\ minerThreads = << >>
    /\ generated = NoGenerate

\* the locals of the threads W before they are set
LocalsUnsetIn(W) ==
    /\ pindexPrev = [ w \in W |-> 0 ]
    /\ nExtraNonce = [ w \in W |-> 0 ]
    /\ fKept = [ w \in W |-> FALSE ]
    /\ tipAtCheck = [ w \in W |-> 0 ]
    /\ blockHeader = [ w \in W |-> NoBlock ]
    /\ firstLEZeroByte = [ w \in W |-> 0 ]
    /\ scanResult = [ w \in W |-> FALSE ]
    /\ atCall = [ w \in W |-> NoCall ]
    /\ interruptRequested = [ w \in W |-> FALSE ]
    /\ ok = [ w \in W |-> "none" ]
    /\ validationState = [ w \in W |-> "none" ]
    /\ lastPrev = [ w \in W |-> 0 ]
    /\ scansInterrupted = [ w \in W |-> 0 ]

\* the locals of the workers before they are set
LocalsUnset == LocalsUnsetIn(Workers)

\* the workers and the node at rest
MinerIdle ==
    /\ NodeIdle
    /\ network = "main"
    /\ LocalsUnset
    /\ pc = [ w \in Workers |-> "absent" ]
    /\ pblock = [ w \in Workers |-> NoBlock ]
    /\ hashesScanned = [ w \in Workers |-> U32(0, 0) ]
    /\ solutionHash = [ w \in Workers |-> ZeroHash ]
    /\ hash = [ w \in Workers |-> ZeroHash ]
    /\ nNonce = [ w \in Workers |-> U32(0, 0) ]

(***************************************************************************)
(* SpecAsm: one CreateNewBlock call.                                       *)
(***************************************************************************)
\* ancestor relations over n entries: ancestors precede their descendants
\* and the ancestors of an ancestor are ancestors
AncestorChoices(n) ==
    { f \in [1..n -> SUBSET (1..n)] :
        \A i \in 1..n : /\ f[i] \subseteq 1..(i - 1)
                         /\ \A j \in f[i] : f[j] \subseteq f[i] }

\* the mempool entry i: its in-mempool ancestors, its individual attributes
\* (an index into Profiles) and the ancestor aggregates the mempool caches
\* for it
Entry(anc, pr, i) ==
    LET pkg == anc[i] \cup {i}
    IN  [ ancestors |-> anc[i],
          p         |-> pr[i],
          nCountWithAncestors     |-> Cardinality(pkg),
          nSizeWithAncestors      |-> SumOver(pkg, [ x \in pkg |-> Profiles[pr[x]].size ]),
          nModFeesWithAncestors   |-> SumOver(pkg, [ x \in pkg |-> Profiles[pr[x]].modfee ]),
          nSigOpCostWithAncestors |-> SumOver(pkg, [ x \in pkg |-> Profiles[pr[x]].sigops ]) ]

\* the profiles the entries of a snapshot of n entries are drawn from: all
\* of them, and the first three for the largest snapshots
Palette(n) == IF n < MaxTx THEN DOMAIN Profiles ELSE 1..3

\* mempool snapshots of n entries
Pools(n) ==
    { [ i \in 1..n |-> Entry(anc, pr, i) ] :
        anc \in AncestorChoices(n), pr \in [1..n -> Palette(n)] }

\* -blockmaxweight values, block-min-fee rates and tip heights tried
OptMaxWeights == { 5600 }
MinFeeRates == { 1 }
TipHeights == { 100 }

InitAsm ==
    /\ MinerIdle
    /\ \E n \in 0..MaxTx : pool \in Pools(n)
    /\ mapTx = SortBy(Tx, MapTxLess)
    /\ optMaxWeight \in OptMaxWeights
    /\ nBlockMaxWeight = ClampMaxWeight(optMaxWeight)
    /\ blockMinFeeRate \in MinFeeRates
    /\ fIncludeWitness \in BOOLEAN
    /\ apc = "constructed"
    /\ inBlock = {}
    /\ nBlockWeight = 0
    /\ nBlockSigOpsCost = 0
    /\ nBlockTx = 0
    /\ nFees = 0
    /\ nHeight = 0
    /\ vtx = << >>
    /\ vTxFees = << >>
    /\ vTxSigOpsCost = << >>
    /\ coinbaseValue = 0
    /\ mapModifiedTx = << >>
    /\ failedTx = {}
    /\ mi = 1
    /\ nConsecutiveFailed = 0
    /\ nPackagesSelected = 0
    /\ lastStep = "none"
    /\ lastIter = 0
    /\ lastUsingModified = FALSE

configVars == << pool, mapTx, optMaxWeight, nBlockMaxWeight, blockMinFeeRate, fIncludeWitness >>
blockVars == << inBlock, nBlockWeight, nBlockSigOpsCost, nBlockTx, nFees,
                vtx, vTxFees, vTxSigOpsCost >>

\* CreateNewBlock up to the selection loop: resetBlock, the placeholder
\* coinbase, the height, and the start of addPackageTxs
CreateNewBlockBegin ==
    /\ apc = "constructed"
    /\ inBlock' = {}
    /\ nBlockWeight' = CoinbaseWeight
    /\ nBlockSigOpsCost' = CoinbaseSigOps
    /\ nBlockTx' = 0
    /\ nFees' = 0
    /\ vtx' = << 0 >>
    /\ vTxFees' = << -1 >>
    /\ vTxSigOpsCost' = << -1 >>
    /\ \E h \in TipHeights : nHeight' = h + 1
    /\ mapModifiedTx' = UpdatePackagesForAdded({}, << >>)
    /\ failedTx' = {}
    /\ mi' = 1
    /\ nConsecutiveFailed' = 0
    /\ nPackagesSelected' = 0
    /\ apc' = "loop"
    /\ lastStep' = "begin"
    /\ UNCHANGED << minerVars, configVars, coinbaseValue, lastIter, lastUsingModified >>

\* lines 341-345: skip a stale entry of mapTx
SkipEntry ==
    /\ apc = "loop"
    /\ LoopCondition
    /\ AtStaleEntry
    /\ mi' = mi + 1
    /\ lastStep' = "skip"
    /\ UNCHANGED << minerVars, configVars, blockVars, apc, nHeight, coinbaseValue,
                    mapModifiedTx, failedTx, nConsecutiveFailed,
                    nPackagesSelected, lastIter, lastUsingModified >>

\* a pass of the loop that evaluates a candidate
Evaluating == apc = "loop" /\ LoopCondition /\ ~AtStaleEntry

\* line 386-389: the candidate is below the fee floor, addPackageTxs returns
FeeFloorReturn ==
    /\ Evaluating
    /\ LET c == Candidate
           pkg == PackageOf(c)
       IN  /\ BelowFeeFloor(pkg.fees, pkg.size)
           /\ mi' = IF c.advance THEN mi + 1 ELSE mi
           /\ lastIter' = c.iter
           /\ lastUsingModified' = c.fUsingModified
    /\ apc' = "coinbase"
    /\ lastStep' = "floor"
    /\ UNCHANGED << minerVars, configVars, blockVars, nHeight, coinbaseValue,
                    mapModifiedTx, failedTx, nConsecutiveFailed,
                    nPackagesSelected >>

\* the give-up test without the count
GiveUp_WeightOnly(nFailed) == nBlockWeight > nBlockMaxWeight - 4000

\* lines 403-404: close to full and no success in a while
GiveUp(nFailed) ==
    /\ nFailed > MAX_CONSECUTIVE_FAILURES
    /\ nBlockWeight > nBlockMaxWeight - 4000

\* lines 391-408: the package does not fit the block
BudgetFail ==
    /\ Evaluating
    /\ LET c == Candidate
           pkg == PackageOf(c)
       IN  /\ ~BelowFeeFloor(pkg.fees, pkg.size)
           /\ ~TestPackage(pkg.size, pkg.sigops)
           /\ mi' = IF c.advance THEN mi + 1 ELSE mi
           /\ mapModifiedTx' = IF c.fUsingModified
                                THEN EraseModified(mapModifiedTx, {c.iter})
                                ELSE mapModifiedTx
           /\ failedTx' = IF c.fUsingModified THEN failedTx \cup {c.iter}
                           ELSE failedTx
           /\ lastIter' = c.iter
           /\ lastUsingModified' = c.fUsingModified
    /\ nConsecutiveFailed' = nConsecutiveFailed + 1
    /\ IF GiveUp(nConsecutiveFailed + 1)
       THEN apc' = "coinbase" /\ lastStep' = "giveup"
       ELSE apc' = "loop" /\ lastStep' = "budget"
    /\ UNCHANGED << minerVars, configVars, blockVars, nHeight, coinbaseValue,
                    nPackagesSelected >>

\* lines 410-425: a transaction of the package is not final or carries a
\* premature witness
TxCheckFail ==
    /\ Evaluating
    /\ LET c == Candidate
           pkg == PackageOf(c)
       IN  /\ ~BelowFeeFloor(pkg.fees, pkg.size)
           /\ TestPackage(pkg.size, pkg.sigops)
           /\ ~TestPackageTransactions(ExpandPackage(c.iter))
           /\ mi' = IF c.advance THEN mi + 1 ELSE mi
           /\ mapModifiedTx' = IF c.fUsingModified
                                THEN EraseModified(mapModifiedTx, {c.iter})
                                ELSE mapModifiedTx
           /\ failedTx' = IF c.fUsingModified THEN failedTx \cup {c.iter}
                           ELSE failedTx
           /\ lastIter' = c.iter
           /\ lastUsingModified' = c.fUsingModified
    /\ lastStep' = "txcheck"
    /\ UNCHANGED << minerVars, configVars, blockVars, apc, nHeight, coinbaseValue,
                    nConsecutiveFailed, nPackagesSelected >>

\* lines 427-443: the package goes into the block
CommitPackage ==
    /\ Evaluating
    /\ LET c == Candidate
           pkg == PackageOf(c)
           ancestors == ExpandPackage(c.iter)
           sortedEntries == SortForBlock(ancestors)
           b == AddAll(BlockState, sortedEntries, 1)
       IN  /\ ~BelowFeeFloor(pkg.fees, pkg.size)
           /\ TestPackage(pkg.size, pkg.sigops)
           /\ TestPackageTransactions(ancestors)
           /\ mi' = IF c.advance THEN mi + 1 ELSE mi
           /\ vtx' = b.vtx
           /\ vTxFees' = b.vTxFees
           /\ vTxSigOpsCost' = b.vTxSigOpsCost
           /\ nBlockWeight' = b.nBlockWeight
           /\ nBlockTx' = b.nBlockTx
           /\ nBlockSigOpsCost' = b.nBlockSigOpsCost
           /\ nFees' = b.nFees
           /\ inBlock' = b.inBlock
           /\ mapModifiedTx' =
                  UpdatePackagesForAdded(ancestors,
                      EraseModified(mapModifiedTx, SeqToSet(sortedEntries)))
           /\ lastIter' = c.iter
           /\ lastUsingModified' = c.fUsingModified
    /\ nConsecutiveFailed' = 0
    /\ nPackagesSelected' = nPackagesSelected + 1
    /\ lastStep' = "commit"
    /\ UNCHANGED << minerVars, configVars, apc, nHeight, coinbaseValue, failedTx >>

\* line 338: the cursor is at the end and the overlay is empty
LoopEnd ==
    /\ apc = "loop"
    /\ ~LoopCondition
    /\ apc' = "coinbase"
    /\ lastStep' = "end"
    /\ UNCHANGED << minerVars, configVars, blockVars, nHeight, coinbaseValue,
                    mapModifiedTx, failedTx, mi, nConsecutiveFailed,
                    nPackagesSelected, lastIter, lastUsingModified >>

\* lines 165-194: the coinbase, fees[0], and TestBlockValidity, which
\* either accepts (the template is returned) or rejects (runtime_error)
CreateNewBlockFinish ==
    /\ apc = "coinbase"
    /\ coinbaseValue' = nFees + GetBlockSubsidy(nHeight)
    /\ vTxFees' = [ vTxFees EXCEPT ![1] = -nFees ]
    /\ vTxSigOpsCost' = [ vTxSigOpsCost EXCEPT ![1] = WITNESS_SCALE_FACTOR * 0 ]
    /\ \E TestBlockValidity \in BOOLEAN :
          apc' = IF TestBlockValidity THEN "returned" ELSE "threw"
    /\ lastStep' = "finish"
    /\ UNCHANGED << minerVars, configVars, inBlock, nBlockWeight, nBlockSigOpsCost,
                    nBlockTx, nFees, nHeight, vtx, mapModifiedTx, failedTx, mi,
                    nConsecutiveFailed, nPackagesSelected, lastIter,
                    lastUsingModified >>

NextAsm ==
    \/ CreateNewBlockBegin
    \/ SkipEntry
    \/ FeeFloorReturn
    \/ BudgetFail
    \/ TxCheckFail
    \/ CommitPackage
    \/ LoopEnd
    \/ CreateNewBlockFinish

SpecAsm == InitAsm /\ [][NextAsm]_vars

(***************************************************************************)
(* SpecGiveUp: assemblies over mempools of more than                       *)
(* MAX_CONSECUTIVE_FAILURES entries.  Entry 1 carries nearly half of the   *)
(* block's sig-op budget and entry 2 is its child; one entry is not final, *)
(* one small entry fits, the last entry may pay nothing; all the others    *)
(* are copies of entry 1 and so do not fit once entry 1 is in the block.   *)
(***************************************************************************)
MaxPool == 1010

\* the profile of entry i when the non-final entry is at nonFinal and the
\* small one at small; last is the profile of the last entry
GiveUpProfile(i, nonFinal, small, last) ==
    IF i = 1 THEN 4
    ELSE IF i = 2 THEN 1
    ELSE IF i = nonFinal THEN 5
    ELSE IF i = small THEN 1
    ELSE IF i = MaxPool THEN last
    ELSE 4

GiveUpPools ==
    { [ i \in 1..MaxPool |->
          Entry([ x \in 1..MaxPool |-> IF x = 2 THEN {1} ELSE {} ],
                [ x \in 1..MaxPool |-> GiveUpProfile(x, nonFinal, small, last) ],
                i) ] :
        nonFinal \in { 3, 5 }, small \in { 4, 500 }, last \in { 3, 4 } }

InitGiveUp ==
    /\ MinerIdle
    /\ pool \in GiveUpPools
    /\ mapTx = [ i \in 1..MaxPool |-> i ]
    /\ { i \in 1..(MaxPool - 1) : ~MapTxLess(mapTx[i], mapTx[i + 1]) } = {}
    /\ optMaxWeight \in { 6000, MAX_BLOCK_WEIGHT - 4000 }
    /\ nBlockMaxWeight = ClampMaxWeight(optMaxWeight)
    /\ blockMinFeeRate \in MinFeeRates
    /\ fIncludeWitness \in BOOLEAN
    /\ apc = "constructed"
    /\ inBlock = {}
    /\ nBlockWeight = 0
    /\ nBlockSigOpsCost = 0
    /\ nBlockTx = 0
    /\ nFees = 0
    /\ nHeight = 0
    /\ vtx = << >>
    /\ vTxFees = << >>
    /\ vTxSigOpsCost = << >>
    /\ coinbaseValue = 0
    /\ mapModifiedTx = << >>
    /\ failedTx = {}
    /\ mi = 1
    /\ nConsecutiveFailed = 0
    /\ nPackagesSelected = 0
    /\ lastStep = "none"
    /\ lastIter = 0
    /\ lastUsingModified = FALSE

SpecGiveUp == InitGiveUp /\ [][NextAsm]_vars

(***************************************************************************)
(* SpecClamp: the construction of a BlockAssembler from its options.       *)
(***************************************************************************)
\* -blockmaxweight values around zero, around both limits, and far below
ClampOptions ==
    (-12..12) \cup (3990..4010) \cup (3995990..3996010)
        \cup { -2147483647, -MAX_BLOCK_WEIGHT, 5600, MAX_BLOCK_WEIGHT,
                2147483647 }

InitClamp ==
    /\ MinerIdle
    /\ pool = << >>
    /\ mapTx = << >>
    /\ optMaxWeight \in ClampOptions
    /\ nBlockMaxWeight = 0
    /\ blockMinFeeRate = 0
    /\ fIncludeWitness = FALSE
    /\ apc = "options"
    /\ inBlock = {}
    /\ nBlockWeight = 0
    /\ nBlockSigOpsCost = 0
    /\ nBlockTx = 0
    /\ nFees = 0
    /\ nHeight = 0
    /\ vtx = << >>
    /\ vTxFees = << >>
    /\ vTxSigOpsCost = << >>
    /\ coinbaseValue = 0
    /\ mapModifiedTx = << >>
    /\ failedTx = {}
    /\ mi = 1
    /\ nConsecutiveFailed = 0
    /\ nPackagesSelected = 0
    /\ lastStep = "none"
    /\ lastIter = 0
    /\ lastUsingModified = FALSE

\* lines 74-79: the constructor
BlockAssemblerConstruct ==
    /\ apc = "options"
    /\ \E rate \in MinFeeRates : blockMinFeeRate' = rate
    /\ nBlockMaxWeight' = ClampMaxWeight(optMaxWeight)
    /\ apc' = "constructed"
    /\ UNCHANGED << minerVars, pool, mapTx, optMaxWeight, fIncludeWitness,
                    blockVars, nHeight, coinbaseValue, mapModifiedTx,
                    failedTx, mi, nConsecutiveFailed, nPackagesSelected,
                    lastStep, lastIter, lastUsingModified >>

NextClamp == BlockAssemblerConstruct

SpecClamp == InitClamp /\ [][NextClamp]_vars

(***************************************************************************)
(* Properties of the assembly.                                             *)
(***************************************************************************)
\* the entries of the template, the coinbase left out
TemplateTxs == { vtx[i] : i \in 2..Len(vtx) }

\* C1 (topological order): in the template, at every pass of the loop and
\* when it is returned, no entry occurs twice and every entry stands at a
\* strictly higher position than each of its in-mempool ancestors that is
\* in the template too, within one package and across packages.
C1_TopologicalOrder ==
    /\ \A i, j \in 2..Len(vtx) : vtx[i] = vtx[j] => i = j
    /\ \A i \in 2..Len(vtx) :
          \A a \in Ancestors(vtx[i]) \cap TemplateTxs :
              \E j \in 2..(i - 1) : vtx[j] = a

\* a returned template built from two packages, holding an entry with two
\* of its ancestors
C1_Witness ==
    /\ apc = "returned"
    /\ nPackagesSelected = 2
    /\ \E x \in TemplateTxs : Cardinality(Ancestors(x) \cap TemplateTxs) >= 2

\* inBlock holds, with every entry, all its in-mempool ancestors
AncestorClosed == \A x \in inBlock : Ancestors(x) \subseteq inBlock

\* C2 (package atomicity): at every boundary of the selection loop inBlock
\* is closed under in-mempool ancestors, and a pass whose budget test or
\* transaction-level check fails adds nothing to the block.
C2_PackageAtomicity ==
    /\ []AncestorClosed
    /\ [][ (apc = "loop" /\ lastStep' \in {"budget", "giveup", "txcheck"})
            => (inBlock' = inBlock /\ vtx' = vtx) ]_vars

\* a failed pass after a package of several entries went in
C2_Witness ==
    /\ lastStep \in {"budget", "txcheck"}
    /\ \E x \in inBlock : Ancestors(x) # {}

\* C3 (budget): after the reset and after every AddToBlock the block
\* weight and sig-op cost are the coinbase reservation plus the individual
\* weights and costs of the included entries, and stay within
\* nBlockMaxWeight and MAX_BLOCK_SIGOPS_COST.
C3_Budget ==
    apc # "constructed" =>
        /\ nBlockWeight = CoinbaseWeight + SumOver(inBlock, GetTxWeight)
        /\ nBlockSigOpsCost = CoinbaseSigOps + SumOver(inBlock, GetSigOpCost)
        /\ nBlockWeight <= nBlockMaxWeight
        /\ nBlockSigOpsCost <= MAX_BLOCK_SIGOPS_COST

\* an entry that failed from the overlay, was inserted again and then
\* went into the block from the overlay
C3_Witness ==
    /\ lastStep = "commit"
    /\ lastUsingModified
    /\ lastIter \in failedTx \cap inBlock

\* the candidate with its ancestors outside the block blk
Remaining(x, blk) == (Ancestors(x) \cup {x}) \ blk
TrueFees(x, blk) == SumOver(Remaining(x, blk), GetModifiedFee)
TrueSize(x, blk) == SumOver(Remaining(x, blk), GetTxSize)

\* C4 (fee floor): no package is committed whose remaining entries
\* (candidate and ancestors outside the block) pay less than
\* blockMinFeeRate x their size; a candidate judged with fees equal to
\* blockMinFeeRate x size is not stopped by the floor; after the floor
\* stopped the loop nothing more is added.
C4_FeeFloor ==
    /\ [][ (apc = "loop" /\ lastStep' = "commit")
            => ~(TrueFees(lastIter', inBlock)
                   < blockMinFeeRate * TrueSize(lastIter', inBlock)) ]_vars
    /\ [][ (Evaluating /\ PackageOf(Candidate).fees
                            = blockMinFeeRate * PackageOf(Candidate).size)
            => lastStep' # "floor" ]_vars
    /\ [][ lastStep = "floor" => (inBlock' = inBlock /\ vtx' = vtx) ]_vars

\* a package that pays exactly the floor went in
C4_Witness ==
    /\ lastStep = "commit"
    /\ \E x \in inBlock : GetModifiedFee[x] = blockMinFeeRate * GetTxSize[x]
    /\ lastIter \in inBlock
    /\ GetModFeesWithAncestors(lastIter)
         = blockMinFeeRate * GetSizeWithAncestors(lastIter)

RECURSIVE SumSeq(_, _)
\* the sum of s[i..Len(s)]
SumSeq(s, i) == IF i > Len(s) THEN 0 ELSE s[i] + SumSeq(s, i + 1)

\* C5 (coinbase consistency): the three parallel lists always have the
\* same length, and in a returned template the coinbase pays the subsidy
\* plus the individual fees of exactly the included entries, which is the
\* sum of fees[1..], and fees[0] is minus that sum.
C5_CoinbaseConsistency ==
    /\ Len(vtx) = Len(vTxFees)
    /\ Len(vtx) = Len(vTxSigOpsCost)
    /\ apc = "returned" =>
          /\ TemplateTxs = inBlock
          /\ coinbaseValue = SumOver(inBlock, GetFee) + GetBlockSubsidy(nHeight)
          /\ vTxFees[1] = - SumSeq(vTxFees, 2)
          /\ vTxFees[1] = - SumOver(inBlock, GetFee)
          /\ \A i \in 2..Len(vtx) : vTxFees[i] = GetFee[vtx[i]]

\* a returned template holding an entry whose modified fee differs from
\* its fee
C5_Witness ==
    /\ apc = "returned"
    /\ \E x \in inBlock : GetModifiedFee[x] # GetFee[x]

\* C19 (overlay invariant): at every boundary between two passes of the
\* selection loop, every entry d of mapModifiedTx carries the mempool's
\* ancestor aggregates of d less the size, modified fee and sig-op cost of
\* each ancestor of d that is in inBlock, also when d was erased from
\* mapModifiedTx after a failure and inserted again later.
C19_OverlayInvariant ==
    apc = "loop" =>
        \A d \in DOMAIN mapModifiedTx :
            LET included == Ancestors(d) \cap inBlock
            IN  /\ mapModifiedTx[d].size
                     = GetSizeWithAncestors(d) - SumOver(included, GetTxSize)
                /\ mapModifiedTx[d].fees
                     = GetModFeesWithAncestors(d)
                         - SumOver(included, GetModifiedFee)
                /\ mapModifiedTx[d].sigops
                     = GetSigOpCostWithAncestors(d)
                         - SumOver(included, GetSigOpCost)

\* C20 (no re-evaluation of failed entries): an entry that is in failedTx
\* is never again the candidate of a pass of the loop, whether the pass
\* takes its candidate from mapTx or from mapModifiedTx.
C20_NoReevaluation ==
    Evaluating => Candidate.iter \notin failedTx

\* a has at least the ancestor fee rate of b (sizes are positive)
RateAtLeast(aFees, aSize, bFees, bSize) == aFees * bSize >= bFees * aSize

\* the entries of mapTx from the cursor on that the loop would still
\* evaluate from mapTx
UnvisitedEligible ==
    { AncestorScoreIndex[i] : i \in mi..Cardinality(Tx) }
        \ (inBlock \cup failedTx \cup DOMAIN mapModifiedTx)

\* C21 (best candidate first): in every pass of the loop that chooses a
\* candidate, the candidate's ancestor fee rate (from mapModifiedTx when it
\* is taken from there) is at least the rate of every entry of
\* mapModifiedTx and of every entry of mapTx not yet visited that is
\* neither in inBlock nor in failedTx nor in mapModifiedTx.
C21_BestCandidateFirst ==
    Evaluating =>
        LET pkg == PackageOf(Candidate)
        IN  /\ \A d \in DOMAIN mapModifiedTx :
                   RateAtLeast(pkg.fees, pkg.size,
                               mapModifiedTx[d].fees, mapModifiedTx[d].size)
            /\ \A x \in UnvisitedEligible :
                   RateAtLeast(pkg.fees, pkg.size,
                               GetModFeesWithAncestors(x),
                               GetSizeWithAncestors(x))

\* a candidate taken from mapModifiedTx ahead of a second entry of
\* mapModifiedTx and of an entry of mapTx, each of a strictly lower rate
C21_Witness ==
    /\ Evaluating
    /\ Candidate.fUsingModified
    /\ LET pkg == PackageOf(Candidate)
       IN  /\ \E d \in DOMAIN mapModifiedTx \ { Candidate.iter } :
                  ~RateAtLeast(mapModifiedTx[d].fees, mapModifiedTx[d].size,
                               pkg.fees, pkg.size)
           /\ \E x \in UnvisitedEligible :
                  ~RateAtLeast(GetModFeesWithAncestors(x),
                               GetSizeWithAncestors(x), pkg.fees, pkg.size)

\* C22 (consecutive-failure heuristic): the loop stops through the
\* give-up branch only when the pass that stops it is a budget failure
\* that brings the failures counted since the last commit (or since the
\* start) above MAX_CONSECUTIVE_FAILURES while nBlockWeight is above
\* nBlockMaxWeight - 4000; a budget failure counts one, a failure of the
\* transaction checks counts nothing, and a commit sets the count to 0.
C22_ConsecutiveFailures ==
    [][ /\ lastStep' = "giveup"
            => /\ nConsecutiveFailed' > MAX_CONSECUTIVE_FAILURES
               /\ nBlockWeight' > nBlockMaxWeight' - 4000
        /\ lastStep' \in { "budget", "giveup" }
            => nConsecutiveFailed' = nConsecutiveFailed + 1
        /\ lastStep' \in { "txcheck", "skip", "floor", "end", "finish" }
            => nConsecutiveFailed' = nConsecutiveFailed
        /\ lastStep' \in { "commit", "begin" } => nConsecutiveFailed' = 0
        /\ (apc = "loop" /\ apc' # "loop")
            => lastStep' \in { "giveup", "floor", "end" }
      ]_vars

\* the loop gave up after three commits; between the last commit and the
\* give-up one candidate more was evaluated than failures were counted
C22_Witness ==
    /\ lastStep = "giveup"
    /\ nConsecutiveFailed = MAX_CONSECUTIVE_FAILURES + 1
    /\ nPackagesSelected = 3
    /\ inBlock = { 1, 2, 4 }
    /\ mi - 5 > nConsecutiveFailed

\* a pass of the selection loop: a step taken inside the while
LoopPass == apc = "loop" /\ LoopCondition

\* the three ways a pass makes progress
CursorAdvances == mi' > mi
OverlayShrinks ==
    /\ DOMAIN mapModifiedTx' \subseteq DOMAIN mapModifiedTx
    /\ DOMAIN mapModifiedTx' # DOMAIN mapModifiedTx
BlockGrows == inBlock \subseteq inBlock' /\ inBlock' # inBlock

\* an entry comes into mapModifiedTx
OverlayInsertion == ~(DOMAIN mapModifiedTx' \subseteq DOMAIN mapModifiedTx)

\* what is left for the loop to do: the entries not in the block, and then
\* the entries of mapTx behind the cursor with those of mapModifiedTx
LeftOutside == Cardinality(Tx \ inBlock)
LeftToVisit == (Cardinality(Tx) + 1 - mi) + Cardinality(DOMAIN mapModifiedTx)

\* the pair (LeftOutside, LeftToVisit) gets smaller in the lexicographic
\* order of pairs of naturals
Descends ==
    /\ LeftOutside >= 0 /\ LeftToVisit >= 0
    /\ \/ LeftOutside' < LeftOutside
       \/ LeftOutside' = LeftOutside /\ LeftToVisit' < LeftToVisit

\* C25 (selection loop termination) as stated: the selection loop ends,
\* as every pass of it advances the cursor of mapTx, or takes an entry out
\* of mapModifiedTx and puts none in, or makes inBlock strictly larger, and
\* so brings (LeftOutside, LeftToVisit) down; entries come into
\* mapModifiedTx only in passes that make inBlock larger.
C25_LoopTermination ==
    [][ LoopPass =>
          /\ CursorAdvances \/ OverlayShrinks \/ BlockGrows
          /\ Descends
          /\ OverlayInsertion => BlockGrows ]_vars

\* C25 amended: the same of every pass but the one that returns at the
\* fee floor, which ends the loop and may leave the cursor, mapModifiedTx
\* and inBlock as they are (when its candidate is from mapModifiedTx).
C25_LoopTerminationButFloor ==
    [][ LoopPass =>
          /\ lastStep' # "floor"
                => /\ CursorAdvances \/ OverlayShrinks \/ BlockGrows
                   /\ Descends
          /\ lastStep' = "floor" => apc' = "coinbase"
          /\ OverlayInsertion => BlockGrows ]_vars

\* the loop has ended at the fee floor on a candidate from mapModifiedTx,
\* after an entry that had failed came back into mapModifiedTx and into
\* the block
C25_Witness ==
    /\ apc = "coinbase"
    /\ lastStep = "floor"
    /\ lastUsingModified
    /\ failedTx \cap inBlock # {}

\* C18 (weight clamp) as stated: for every configured -blockmaxweight the
\* assembler's nBlockMaxWeight is min(max(option, 4000), MAX_BLOCK_WEIGHT -
\* 4000), and so lies in [4000, MAX_BLOCK_WEIGHT - 4000].
C18_WeightClamp ==
    apc = "constructed" =>
        /\ nBlockMaxWeight =
              Min(Max(optMaxWeight, 4000), MAX_BLOCK_WEIGHT - 4000)
        /\ nBlockMaxWeight >= 4000
        /\ nBlockMaxWeight <= MAX_BLOCK_WEIGHT - 4000

\* C18 amended: nBlockMaxWeight always lies in [4000, MAX_BLOCK_WEIGHT -
\* 4000]; for an option that is not negative it is min(max(option, 4000),
\* MAX_BLOCK_WEIGHT - 4000), and for a negative option, which the unsigned
\* comparison takes for a huge value, it is MAX_BLOCK_WEIGHT - 4000.
C18_WeightClampUnsigned ==
    apc = "constructed" =>
        /\ nBlockMaxWeight >= 4000
        /\ nBlockMaxWeight <= MAX_BLOCK_WEIGHT - 4000
        /\ nBlockMaxWeight =
              IF optMaxWeight < 0 THEN MAX_BLOCK_WEIGHT - 4000
              ELSE Min(Max(optMaxWeight, 4000), MAX_BLOCK_WEIGHT - 4000)

\* an assembler built from a negative option
C18_Witness ==
    /\ apc = "constructed"
    /\ optMaxWeight < 0
    /\ nBlockMaxWeight = MAX_BLOCK_WEIGHT - 4000

(***************************************************************************)
(* ScanScryptHash.                                                         *)
(***************************************************************************)
\* u - 1 in uint32_t arithmetic
U32Dec(n) ==
    IF n.lo > 0 THEN [ n EXCEPT !.lo = n.lo - 1 ]
    ELSE U32((n.hi + HighLimit - 1) % HighLimit, SliceSize - 1)

\* scrypt_1024_1_1_256 is, to the miner, some function of the 80 header
\* bytes.  The one of the model mixes the header fields and the nonce into
\* a number v below HashModulus and spreads v over bytes 0, 1, 16, 30 and
\* 31.  Headers that differ in the nonce alone get different hashes, with
\* one exception in every slice of nonces: the last nonce but two and the
\* one after it get the same hash.  v < 3 gives a hash whose bytes 1..31
\* are zero, and v = 0 the hash zero.
HashModulus == 4099
HeaderDigest(h) ==
    h.hashPrevBlock * 7 + h.hashMerkleRoot * 5 + h.nTime * 3 + h.nBits + 2
NonceMix(n) ==
    n.hi * 11 + (IF n.lo = SliceSize - 3 THEN SliceSize - 2 ELSE n.lo)
scrypt_1024_1_1_256(h) ==
    LET v == (HeaderDigest(h) + NonceMix(h.nNonce)) % HashModulus
    IN  [ j \in 1..Uint256Bytes |->
            IF v < 3 THEN (IF j = 1 THEN 3 * v ELSE 0)
            ELSE CASE j = 1  -> v % 256
                   [] j = 2  -> 1 + (v \div 256)
                   [] j = 17 -> v % 32
                   [] j = 31 -> v % 4
                   [] j = 32 -> (IF v % 5 = 0 THEN 1 + (v % 100) ELSE 0)
                   [] OTHER  -> 0 ]

\* CBlock::GetPoWHash
GetPoWHash(block) == scrypt_1024_1_1_256(block)

RECURSIVE ScanDown(_, _)
\* lines 536-538: the for loop, from the value f of firstLEZeroByte
ScanDown(uint256solution, f) ==
    IF f > 1 /\ uint256solution[f] = 0
    THEN ScanDown(uint256solution, f - 1)
    ELSE f

\* the loop started one byte too low
FirstLEZeroByte_FromBelow(uint256solution) ==
    ScanDown(uint256solution, Uint256Bytes - 1)

\* lines 535-538
FirstLEZeroByte(uint256solution) == ScanDown(uint256solution, Uint256Bytes)

\* the test that leaves out byte firstLEZeroByte
found_SkipFirst(phash, first) ==
    \A j \in (first + 1)..(Uint256Bytes - 1) : phash[j + 1] = 0

\* lines 551-553
found(phash, first) ==
    \A j \in first..(Uint256Bytes - 1) : phash[j + 1] = 0

\* the mask of the SHA256 scanner
SliceEnd_Mask16(n) == n.lo = 0 /\ n.hi % 16 = 0

\* line 562
SliceEnd(n) == Low12(n) = 0

\* lines 534-540: entry of ScanScryptHash( *blockHeader, nNonce, &hash,
\* solutionHash, hashesScanned ) by worker w
ScanEnter(w) ==
    /\ pc[w] = "scan"
    /\ blockHeader' = [ blockHeader EXCEPT ![w] = pblock[w] ]
    /\ firstLEZeroByte' =
          [ firstLEZeroByte EXCEPT ![w] = FirstLEZeroByte(solutionHash[w]) ]
    /\ atCall' = [ atCall EXCEPT ![w] =
                     [ nNonce |-> nNonce[w], hashesScanned |-> hashesScanned[w],
                       hash |-> hash[w], evals |-> 0 ] ]
    /\ IF firstLEZeroByte'[w] = Uint256Bytes
       THEN /\ scanResult' = [ scanResult EXCEPT ![w] = TRUE ]
            /\ pc' = [ pc EXCEPT ![w] = "scanned" ]
       ELSE /\ scanResult' = scanResult
            /\ pc' = [ pc EXCEPT ![w] = "scanloop" ]
    /\ scansInterrupted' =
          [ scansInterrupted EXCEPT
              ![w] = IF interruptRequested[w] THEN @ + 1 ELSE @ ]
    /\ UNCHANGED << asmVars, superVars, ok, validationState, lastPrev,
                    nodeVars, callerVars, hashesScanned, hash, nNonce >>

\* lines 542-564: one pass of the loop
ScanIterate(w) ==
    /\ pc[w] = "scanloop"
    /\ LET header == [ blockHeader[w] EXCEPT !.nNonce = nNonce[w] ]
           phash == scrypt_1024_1_1_256(header)
           next == U32Inc(nNonce[w])
       IN  /\ blockHeader' = [ blockHeader EXCEPT ![w] = header ]
           /\ hash' = [ hash EXCEPT ![w] = phash ]
           /\ hashesScanned' =
                 [ hashesScanned EXCEPT ![w] = U32Inc(hashesScanned[w]) ]
           /\ nNonce' = [ nNonce EXCEPT ![w] = next ]
           /\ atCall' = [ atCall EXCEPT ![w].evals = @ + 1 ]
           /\ IF found(phash, firstLEZeroByte[w])
              THEN /\ scanResult' = [ scanResult EXCEPT ![w] = TRUE ]
                   /\ pc' = [ pc EXCEPT ![w] = "scanned" ]
              ELSE IF SliceEnd(next)
              THEN /\ scanResult' = [ scanResult EXCEPT ![w] = FALSE ]
                   /\ pc' = [ pc EXCEPT ![w] = "scanned" ]
              ELSE /\ scanResult' = scanResult
                   /\ pc' = pc
    /\ UNCHANGED << asmVars, superVars, historyVars, nodeVars, callerVars, firstLEZeroByte >>

(***************************************************************************)
(* SpecScan: one call of ScanScryptHash.                                   *)
(***************************************************************************)
\* no assembly in progress
AsmIdle ==
    /\ pool = << >>
    /\ mapTx = << >>
    /\ optMaxWeight = 0
    /\ nBlockMaxWeight = 0
    /\ blockMinFeeRate = 0
    /\ fIncludeWitness = FALSE
    /\ apc = "none"
    /\ inBlock = {}
    /\ nBlockWeight = 0
    /\ nBlockSigOpsCost = 0
    /\ nBlockTx = 0
    /\ nFees = 0
    /\ nHeight = 0
    /\ vtx = << >>
    /\ vTxFees = << >>
    /\ vTxSigOpsCost = << >>
    /\ coinbaseValue = 0
    /\ mapModifiedTx = << >>
    /\ failedTx = {}
    /\ mi = 1
    /\ nConsecutiveFailed = 0
    /\ nPackagesSelected = 0
    /\ lastStep = "none"
    /\ lastIter = 0
    /\ lastUsingModified = FALSE

\* a uint256 whose bytes from..to (source numbering) are fill and whose
\* byte top is value
Target(from, to, fill, top, value) ==
    [ j \in 1..Uint256Bytes |->
        IF j = top + 1 THEN value
        ELSE IF j - 1 >= from /\ j - 1 <= to THEN fill ELSE 0 ]

\* the targets tried: byte 31 nonzero, byte 30 the highest nonzero byte,
\* byte 16 the highest, byte 0 the only one, no nonzero byte
ScanTargets ==
    << Target(0, 30, 255, 31, 127),
       Target(1, 0, 0, 30, 2),
       Target(0, 15, 255, 16, 16),
       Target(1, 0, 0, 0, 5),
       ZeroHash >>

\* headers, seed nonces, counters and buffer contents a call starts from
ScanHeaders ==
    { [ NoBlock EXCEPT !.nBits = 1 ],
      [ NoBlock EXCEPT !.hashPrevBlock = 1, !.hashMerkleRoot = 1,
                       !.nTime = 1, !.nBits = 2 ] }
ScanSeeds ==
    { U32(0, 0), U32(0, 60), U32(0, 4084), U32(0, 4090), U32(5, 4000),
      U32(HighLimit - 1, 4094) }
ScanCounters == { U32(0, 0), U32(HighLimit - 1, SliceSize - 1) }
ScanBuffers == { ZeroHash, Target(1, 0, 0, 0, 5) }

\* the worker that makes the call
ScanCaller == CHOOSE w \in Workers : \A v \in Workers : w <= v

InitScan ==
    /\ AsmIdle
    /\ NodeIdle
    /\ network = "main"
    /\ LocalsUnset
    /\ pc = [ w \in Workers |-> IF w = ScanCaller THEN "scan" ELSE "absent" ]
    /\ \E h \in ScanHeaders : pblock = [ w \in Workers |-> h ]
    /\ \E c \in ScanCounters : hashesScanned = [ w \in Workers |-> c ]
    /\ \E t \in DOMAIN ScanTargets :
          solutionHash = [ w \in Workers |-> ScanTargets[t] ]
    /\ \E b \in ScanBuffers : hash = [ w \in Workers |-> b ]
    /\ \E n \in ScanSeeds : nNonce = [ w \in Workers |-> n ]

NextScan ==
    \/ \E w \in Workers : ScanEnter(w)
    \/ \E w \in Workers : ScanIterate(w)

SpecScan == InitScan /\ [][NextScan]_vars

(***************************************************************************)
(* Properties of the nonce searcher.                                       *)
(***************************************************************************)
\* the call of worker w has returned
Returned(w) == pc[w] = "scanned"

\* the caller's header at the nonce the call reports, and at the nonce
\* before it
HeaderAt(w, n) == [ pblock[w] EXCEPT !.nNonce = n ]

\* C7 (search soundness) as stated: when the searcher returns success, the
\* scrypt hash of the header at the nonce it reports is <= target.
C7_SearchSoundness ==
    \A w \in Workers :
        (Returned(w) /\ scanResult[w]) =>
            LessOrEqual256(scrypt_1024_1_1_256(HeaderAt(w, nNonce[w])),
                           solutionHash[w])

\* C7 amended: when the searcher returns success after evaluating at least
\* one hash, the buffer holds the scrypt hash of the header at the nonce
\* one below the reported nonce (mod 2^32), and every byte j >= 1 of that
\* hash is zero if bytes j..31 of the target are all zero: a condition
\* necessary for hash <= target, not sufficient.  When it returns success
\* without evaluating a hash the buffer is as the caller left it.
C7_SearchCandidate ==
    \A w \in Workers :
        (Returned(w) /\ scanResult[w]) =>
            IF atCall[w].evals = 0
            THEN hash[w] = atCall[w].hash
            ELSE /\ hash[w] = scrypt_1024_1_1_256(HeaderAt(w, U32Dec(nNonce[w])))
                 /\ \A j \in 2..Uint256Bytes :
                       (\A k \in j..Uint256Bytes : solutionHash[w][k] = 0)
                           => hash[w][j] = 0

\* a success whose hash has the zero bytes asked for and is above the
\* target
C7_Witness ==
    \E w \in Workers :
        /\ Returned(w)
        /\ scanResult[w]
        /\ atCall[w].evals > 1
        /\ solutionHash[w][31] # 0
        /\ ~LessOrEqual256(hash[w], solutionHash[w])

\* C9 (searcher early exit) as stated: the searcher returns without
\* having computed a hash exactly when the target is zero in all 32 bytes.
C9_EarlyExitAllZero ==
    \A w \in Workers :
        Returned(w) => (atCall[w].evals = 0 <=> solutionHash[w] = ZeroHash)

\* C9 amended: the searcher returns without having computed a hash
\* exactly when byte 31, the most significant byte of the target, is
\* nonzero; it then returns success and leaves the nonce, the counter and
\* the buffer unchanged.  For every other target, the all-zero one
\* included, it computes at least one hash before returning.
C9_EarlyExitTopByte ==
    \A w \in Workers :
        Returned(w) =>
            /\ atCall[w].evals = 0 <=> solutionHash[w][Uint256Bytes] # 0
            /\ atCall[w].evals = 0 =>
                  /\ scanResult[w]
                  /\ nNonce[w] = atCall[w].nNonce
                  /\ hashesScanned[w] = atCall[w].hashesScanned
                  /\ hash[w] = atCall[w].hash

\* an immediate success on a target whose top byte is nonzero
C9_Witness ==
    \E w \in Workers :
        /\ Returned(w)
        /\ atCall[w].evals = 0
        /\ solutionHash[w][Uint256Bytes] # 0
        /\ atCall[w].hash # ZeroHash

\* C10 (bounded search slice): a call evaluates at most 4096 hashes, the
\* nonce and the counter are the values at the call plus the number of
\* hashes evaluated (mod 2^32), and a return without success happens only
\* after a hash, with nonce & 0xfff = 0.
C10_BoundedSlice ==
    \A w \in Workers :
        pc[w] \in {"scanloop", "scanned"} =>
            /\ atCall[w].evals <= SliceSize
            /\ pc[w] = "scanloop" => atCall[w].evals < SliceSize
            /\ nNonce[w] = U32Add(atCall[w].nNonce, atCall[w].evals)
            /\ hashesScanned[w]
                 = U32Add(atCall[w].hashesScanned, atCall[w].evals)
            /\ (Returned(w) /\ ~scanResult[w]) =>
                  /\ atCall[w].evals >= 1
                  /\ Low12(nNonce[w]) = 0

\* a whole slice searched without success
C10_Witness ==
    \E w \in Workers :
        /\ Returned(w)
        /\ ~scanResult[w]
        /\ atCall[w].evals = SliceSize

(***************************************************************************)
(* CoinMiner and ProcessBlockFound.                                        *)
(***************************************************************************)
\* the chains: which of them mine on demand and allow min-difficulty blocks
Networks == { "main", "test", "regtest" }
MineBlocksOnDemand == network = "regtest"
fPowAllowMinDifficultyBlocks == network # "main"

\* CBlockIndex::GetMedianTimePast of the block at height h
GetMedianTimePast(h) == h - 1

\* the compact targets, as indices into ScanTargets, and
\* arith_uint256().SetCompact
SetCompact(nBits) == ScanTargets[nBits]

\* GetNextWorkRequired: regtest always works at its limit, whose top byte
\* is nonzero; the test chain falls to its limit when the block's time is
\* far from the tip's; otherwise the work depends on the tip
GetNextWorkRequired(h, nTime) ==
    IF network = "regtest" THEN 1
    ELSE IF network = "test" /\ nTime > GetMedianTimePast(h) + 1 THEN 2
    ELSE IF h % 2 = 1 THEN 3 ELSE 2

\* BlockMerkleRoot of a block whose coinbase scriptSig holds the height
\* and the extra nonce
BlockMerkleRoot(height, extra) == height * 4 + extra

\* the values randomNumber() yields
MinerSeeds == { U32(0, SliceSize - 3), U32(0, SliceSize - 2), U32(0, 4041) }

\* number of templates a worker bumps on one tip
MaxExtraNonce == 2
\* number of hashes after which a worker does not call the searcher again
MaxHashes == 6

\* lines 591-608: the coinbase script is there, or runtime_error
MinerStart(w) ==
    /\ pc[w] = "start"
    /\ \E coinbaseScript \in BOOLEAN :
          pc' = [ pc EXCEPT ![w] = IF coinbaseScript THEN "wait"
                                   ELSE "error_NoCoinbaseScript" ]
    /\ nExtraNonce' = [ nExtraNonce EXCEPT ![w] = 0 ]
    /\ UNCHANGED << asmVars, superVars, historyVars, nodeVars, scanVars, pindexPrev, pblock,
                    solutionHash, fKept, tipAtCheck >>

\* the tip is read and the template built whatever the network's state
SnapshotTip_NoGate(w) ==
    /\ pc[w] = "wait"
    /\ pindexPrev' = [ pindexPrev EXCEPT ![w] = chainTip ]
    /\ pc' = [ pc EXCEPT ![w] = "create" ]
    /\ UNCHANGED << asmVars, superVars, historyVars, nodeVars, scanVars,
                    pblock, nExtraNonce, solutionHash, fKept, tipAtCheck >>

\* lines 614-625: the network is online; the tip is read without the lock
SnapshotTip(w) ==
    /\ pc[w] = "wait"
    /\ fReady
    /\ pindexPrev' = [ pindexPrev EXCEPT ![w] = chainTip ]
    /\ pc' = [ pc EXCEPT ![w] = "create" ]
    /\ UNCHANGED << asmVars, superVars, historyVars, nodeVars, scanVars, pblock, nExtraNonce,
                    solutionHash, fKept, tipAtCheck >>

\* UpdateTime that writes the new time whatever the old one
UpdateTime_Overwrite(block, h) ==
    LET nNewTime == Max(GetMedianTimePast(h) + 1, nAdjustedTime)
    IN  [ block |-> [ block EXCEPT !.nTime = nNewTime ],
          delta |-> nNewTime - block.nTime ]

\* UpdateTime, lines 54-67: the header after the call and the value
\* returned
UpdateTime(block, h) ==
    LET nOldTime == block.nTime
        nNewTime == Max(GetMedianTimePast(h) + 1, nAdjustedTime)
        timed == IF nOldTime < nNewTime THEN [ block EXCEPT !.nTime = nNewTime ]
                 ELSE block
    IN  [ block |-> IF fPowAllowMinDifficultyBlocks
                    THEN [ timed EXCEPT !.nBits = GetNextWorkRequired(h, timed.nTime) ]
                    ELSE timed,
          delta |-> nNewTime - nOldTime ]

\* the header CreateNewBlock fills in under cs_main, lines 130-141 and
\* 172-183, on the tip it finds there
NewBlockHeader ==
    LET timed == UpdateTime([ NoBlock EXCEPT !.nTime = nAdjustedTime ],
                            chainTip).block
    IN  [ timed EXCEPT !.hashPrevBlock = chainTip,
                       !.hashMerkleRoot = BlockMerkleRoot(chainTip + 1, 0),
                       !.nHeight = chainTip + 1,
                       !.nBits = GetNextWorkRequired(chainTip, timed.nTime),
                       !.nNonce = U32(0, 0) ]

\* CreateNewBlock returns whatever TestBlockValidity says
TemplateReturned_Unchecked(valid) == TRUE

\* lines 186-194: CreateNewBlock returns the template if TestBlockValidity
\* accepts it and throws runtime_error otherwise
TemplateReturned(valid) == valid

\* lines 627-635: CreateNewBlock returns a template, or TestBlockValidity
\* makes it throw runtime_error
MinerCreateNewBlock(w) ==
    /\ pc[w] = "create"
    /\ nExtraNonce[w] < MaxExtraNonce
    /\ \E TestBlockValidity \in BOOLEAN :
          /\ validationState' =
                [ validationState EXCEPT
                    ![w] = IF TestBlockValidity THEN "valid" ELSE "invalid" ]
          /\ IF TemplateReturned(TestBlockValidity)
             THEN /\ pblock' = [ pblock EXCEPT ![w] = NewBlockHeader ]
                  /\ pc' = [ pc EXCEPT ![w] = "bump" ]
             ELSE /\ pblock' = pblock
                  /\ pc' = [ pc EXCEPT ![w] = "error_TestBlockValidity" ]
    /\ UNCHANGED << asmVars, superVars, ok, lastPrev, scansInterrupted, nodeVars, scanVars, pindexPrev, nExtraNonce,
                    solutionHash, fKept, tipAtCheck >>

\* lines 447-464, called at line 636
IncrementExtraNonce(w) ==
    /\ pc[w] = "bump"
    /\ LET reset == hashPrevBlock # pblock[w].hashPrevBlock
           extra == (IF reset THEN 0 ELSE nExtraNonce[w]) + 1
           height == pindexPrev[w] + 1
       IN  /\ hashPrevBlock' = pblock[w].hashPrevBlock
           /\ lastPrev' = [ lastPrev EXCEPT ![w] = pblock[w].hashPrevBlock ]
           /\ nExtraNonce' = [ nExtraNonce EXCEPT ![w] = extra ]
           /\ pblock' = [ pblock EXCEPT
                            ![w].nHeight = height,
                            ![w].hashMerkleRoot = BlockMerkleRoot(height, extra) ]
    /\ pc' = [ pc EXCEPT ![w] = "search" ]
    /\ UNCHANGED << asmVars, superVars, ok, validationState, scansInterrupted,
                    chainTip, nAdjustedTime, fReady, network,
                    processed, scanVars, pindexPrev, solutionHash, fKept,
                    tipAtCheck >>

\* lines 642-647: the locals of the search
BeginSearch(w) ==
    /\ pc[w] = "search"
    /\ hashesScanned' = [ hashesScanned EXCEPT ![w] = U32(0, 0) ]
    /\ solutionHash' = [ solutionHash EXCEPT ![w] = SetCompact(pblock[w].nBits) ]
    /\ hash' = [ hash EXCEPT ![w] = ZeroHash ]
    /\ \E randomNumber \in MinerSeeds :
          nNonce' = [ nNonce EXCEPT ![w] = randomNumber ]
    /\ pc' = [ pc EXCEPT ![w] = "scan" ]
    /\ UNCHANGED << asmVars, superVars, historyVars, nodeVars, pindexPrev, pblock, nExtraNonce, fKept,
                    tipAtCheck, blockHeader, firstLEZeroByte, scanResult,
                    atCall >>

\* line 662 after a success of the searcher
Verified(w) ==
    /\ pc[w] = "scanned"
    /\ scanResult[w]
    /\ LessOrEqual256(hash[w], solutionHash[w])

\* lines 665-670: the nonce goes into the block and the block's own hash
\* differs from the candidate: runtime_error
HashMismatch(w) ==
    /\ Verified(w)
    /\ pblock' = [ pblock EXCEPT ![w].nNonce = nNonce[w] ]
    /\ hash[w] # GetPoWHash(pblock'[w])
    /\ pc' = [ pc EXCEPT ![w] = "error_HashMismatch" ]
    /\ UNCHANGED << asmVars, superVars, historyVars, nodeVars, scanVars, pindexPrev, nExtraNonce,
                    solutionHash, fKept, tipAtCheck >>

\* lines 665-676: the nonce goes into the block, the block's own hash is
\* the candidate, ProcessBlockFound is called
SolutionFound(w) ==
    /\ Verified(w)
    /\ pblock' = [ pblock EXCEPT ![w].nNonce = nNonce[w] ]
    /\ hash[w] = GetPoWHash(pblock'[w])
    /\ pc' = [ pc EXCEPT ![w] = "found" ]
    /\ UNCHANGED << asmVars, superVars, historyVars, nodeVars, scanVars, pindexPrev, nExtraNonce,
                    solutionHash, fKept, tipAtCheck >>

\* lines 685-688: the candidate is above the target
FalsePositive(w) ==
    /\ pc[w] = "scanned"
    /\ scanResult[w]
    /\ ~LessOrEqual256(hash[w], solutionHash[w])
    /\ \E randomNumber \in MinerSeeds :
          nNonce' = [ nNonce EXCEPT ![w] = randomNumber ]
    /\ pc' = [ pc EXCEPT ![w] = "check" ]
    /\ UNCHANGED << asmVars, superVars, historyVars, nodeVars, callerVars, hashesScanned, hash,
                    blockHeader, firstLEZeroByte, scanResult, atCall >>

\* line 660: the searcher returned false
NothingFound(w) ==
    /\ pc[w] = "scanned"
    /\ ~scanResult[w]
    /\ pc' = [ pc EXCEPT ![w] = "check" ]
    /\ UNCHANGED << asmVars, superVars, historyVars, nodeVars, callerVars, scanVars >>

\* the block never counts as stale
IsStale_Never(block) == FALSE

\* line 575
IsStale(block) == block.hashPrevBlock # chainTip

\* lines 573-577: the comparison with the tip under cs_main
ProcessBlockFound(w) ==
    /\ pc[w] = "found"
    /\ tipAtCheck' = [ tipAtCheck EXCEPT ![w] = chainTip ]
    /\ pc' = [ pc EXCEPT ![w] = IF IsStale(pblock[w]) THEN "keep" ELSE "submit" ]
    /\ ok' = [ ok EXCEPT ![w] = IF IsStale(pblock[w]) THEN "stale" ELSE "pending" ]
    /\ UNCHANGED << asmVars, superVars, validationState, lastPrev,
                    scansInterrupted, nodeVars, scanVars, pindexPrev, pblock,
                    nExtraNonce, solutionHash, fKept >>

\* line 580: ProcessNewBlock, which accepts the block or not; an accepted
\* block that extends the tip becomes the tip
ProcessNewBlock(w) ==
    /\ pc[w] = "submit"
    /\ processed' = [ called |-> TRUE,
                      hashPrevBlock |-> pblock[w].hashPrevBlock,
                      tipAtCheck |-> tipAtCheck[w],
                      tipAtCall |-> chainTip ]
    /\ \E accepted \in BOOLEAN :
          /\ chainTip' = IF /\ accepted
                            /\ pblock[w].hashPrevBlock = chainTip
                            /\ chainTip < MaxTip
                         THEN chainTip + 1 ELSE chainTip
          /\ ok' = [ ok EXCEPT ![w] = IF accepted THEN "accepted" ELSE "rejected" ]
    /\ pc' = [ pc EXCEPT ![w] = "keep" ]
    /\ UNCHANGED << asmVars, superVars, validationState, lastPrev,
                    scansInterrupted, nAdjustedTime, fReady, network, hashPrevBlock,
                    scanVars, callerVars >>

\* lines 677-683 and 712-716: KeepScript, then the interruption of a
\* chain that mines on demand, or the next template
KeepScript(w) ==
    /\ pc[w] = "keep"
    /\ fKept' = [ fKept EXCEPT ![w] = TRUE ]
    /\ pc' = [ pc EXCEPT ![w] = IF MineBlocksOnDemand THEN "interrupted"
                                ELSE "wait" ]
    /\ UNCHANGED << asmVars, superVars, historyVars, nodeVars, scanVars, pindexPrev, pblock,
                    nExtraNonce, solutionHash, tipAtCheck >>

\* lines 614-618 and 718-720: MilliSleep is an interruption point; a
\* worker that sleeps with the interrupt pending ends in thread_interrupted
InterruptedAsleep(w) ==
    /\ pc[w] = "wait"
    /\ ~fReady
    /\ interruptRequested[w]
    /\ pc' = [ pc EXCEPT ![w] = "interrupted" ]
    /\ UNCHANGED << asmVars, superVars, historyVars, nodeVars, scanVars,
                    callerVars >>

\* the tip never counts as changed
TipChanged_Never(w) == FALSE

\* line 696: the tip is not the one the worker read at line 625
TipChanged(w) == pindexPrev[w] # chainTip

\* lines 692-716: the interruption point; then the tip moved or the clock
\* ran backwards, and the worker leaves the search for the next template;
\* or it calls the searcher again
RebuildCheck(w) ==
    /\ pc[w] = "check"
    /\ IF interruptRequested[w]
       THEN /\ pc' = [ pc EXCEPT ![w] = "interrupted" ]
            /\ UNCHANGED << pblock, solutionHash >>
       ELSE
       /\ hashesScanned[w].hi = 0 /\ hashesScanned[w].lo < MaxHashes
       /\ IF TipChanged(w)
          THEN /\ pc' = [ pc EXCEPT ![w] = "wait" ]
               /\ UNCHANGED << pblock, solutionHash >>
          ELSE LET u == UpdateTime(pblock[w], pindexPrev[w])
               IN  /\ pblock' = [ pblock EXCEPT ![w] = u.block ]
                   /\ IF u.delta < 0
                      THEN /\ pc' = [ pc EXCEPT ![w] = "wait" ]
                           /\ solutionHash' = solutionHash
                      ELSE /\ pc' = [ pc EXCEPT ![w] = "scan" ]
                           /\ solutionHash' =
                                 IF fPowAllowMinDifficultyBlocks
                                 THEN [ solutionHash EXCEPT
                                          ![w] = SetCompact(u.block.nBits) ]
                                 ELSE solutionHash
    /\ UNCHANGED << asmVars, superVars, historyVars, nodeVars, scanVars, pindexPrev, nExtraNonce,
                    fKept, tipAtCheck >>

\* GetNumCores()
GetNumCores == 2
\* number of calls of GenerateCoins
MaxCalls == 2

\* lines 729-730
EffectiveThreads(nThreads) == IF nThreads < 0 THEN GetNumCores ELSE nThreads

\* the number of threads alone decides
GenerateReturnsEarly_ThreadsOnly(fGenerate, nThreads) == nThreads = 0

\* line 738
GenerateReturnsEarly(fGenerate, nThreads) == nThreads = 0 \/ ~fGenerate

\* lines 473-476
HowManyMiningThreads ==
    IF minerThreads # << >> THEN Cardinality(minerThreads[1]) ELSE 0

\* the threads of the group, none for nullptr
GroupOf(group) == IF group = << >> THEN {} ELSE group[1]

\* the threads that have been created and have not ended
Ended == { "interrupted", "error_NoCoinbaseScript", "error_TestBlockValidity",
           "error_HashMismatch" }
Running(w) == pc[w] # "absent" /\ pc[w] \notin Ended

\* lines 727-744: the threads of the old group get interrupt() and the
\* group is destroyed, which detaches them; then a new group of nThreads
\* threads, unless the call is one that stops the mining
GenerateCoins(fGenerate, nThreads) ==
    LET n == EffectiveThreads(nThreads)
        free == { w \in DOMAIN pc : pc[w] = "absent" }
        stop == GenerateReturnsEarly(fGenerate, n)
        created == IF stop THEN {}
                   ELSE { w \in free : Cardinality({ v \in free : v < w }) < n }
    IN  /\ generated.calls < MaxCalls
        /\ stop \/ n <= Cardinality(free)
        /\ interruptRequested' =
              [ w \in DOMAIN pc |->
                  interruptRequested[w] \/ w \in GroupOf(minerThreads) ]
        /\ minerThreads' = IF stop THEN << >> ELSE << created >>
        /\ pc' = [ w \in DOMAIN pc |-> IF w \in created THEN "start" ELSE pc[w] ]
        /\ generated' = [ calls |-> generated.calls + 1,
                          fGenerate |-> fGenerate, nThreads |-> nThreads ]
        /\ UNCHANGED << asmVars, historyVars, chainTip, nAdjustedTime, fReady,
                        network, hashPrevBlock, processed, scanVars,
                        callerVars >>

\* another actor connects a block
TipAdvance ==
    /\ chainTip < MaxTip
    /\ chainTip' = chainTip + 1
    /\ UNCHANGED << asmVars, superVars, historyVars, nAdjustedTime, fReady, network, hashPrevBlock,
                    processed, workerVars, scanVars >>

\* the adjusted clock moves, forwards or backwards
ClockChange ==
    /\ \E t \in 0..MaxTime : t # nAdjustedTime /\ nAdjustedTime' = t
    /\ UNCHANGED << asmVars, superVars, historyVars, chainTip, fReady, network, hashPrevBlock,
                    processed, workerVars, scanVars >>

\* peers connect, the initial block download ends, the last peer leaves
NetworkChange ==
    /\ fReady' = ~fReady
    /\ UNCHANGED << asmVars, superVars, historyVars, chainTip, nAdjustedTime, network, hashPrevBlock,
                    processed, workerVars, scanVars >>

(***************************************************************************)
(* SpecMiner: the workers of one thread group and the node.                *)
(***************************************************************************)
InitMiner ==
    /\ AsmIdle
    /\ NodeIdle
    /\ network \in Networks
    /\ LocalsUnset
    /\ pc = [ w \in Workers |-> "absent" ]
    /\ pblock = [ w \in Workers |-> NoBlock ]
    /\ hashesScanned = [ w \in Workers |-> U32(0, 0) ]
    /\ solutionHash = [ w \in Workers |-> ZeroHash ]
    /\ hash = [ w \in Workers |-> ZeroHash ]
    /\ nNonce = [ w \in Workers |-> U32(0, 0) ]

NextMiner ==
    \/ \E w \in Workers : MinerStart(w)
    \/ \E w \in Workers : SnapshotTip(w)
    \/ \E w \in Workers : MinerCreateNewBlock(w)
    \/ \E w \in Workers : IncrementExtraNonce(w)
    \/ \E w \in Workers : BeginSearch(w)
    \/ \E w \in Workers : ScanEnter(w)
    \/ \E w \in Workers : ScanIterate(w)
    \/ \E w \in Workers : HashMismatch(w)
    \/ \E w \in Workers : SolutionFound(w)
    \/ \E w \in Workers : FalsePositive(w)
    \/ \E w \in Workers : NothingFound(w)
    \/ \E w \in Workers : ProcessBlockFound(w)
    \/ \E w \in Workers : ProcessNewBlock(w)
    \/ \E w \in Workers : KeepScript(w)
    \/ \E w \in Workers : RebuildCheck(w)
    \/ \E w \in Workers : InterruptedAsleep(w)
    \/ \E fGenerate \in BOOLEAN, nThreads \in -1..MaxWorkers :
          GenerateCoins(fGenerate, nThreads)
    \/ TipAdvance
    \/ ClockChange
    \/ NetworkChange

SpecMiner == InitMiner /\ [][NextMiner]_vars

(***************************************************************************)
(* SpecGroup: GenerateCoins called again and again, the threads of         *)
(* successive groups, and the chain tip.  The node is online, its clock    *)
(* stands still and randomNumber() yields one value, with which no search  *)
(* ends in a hash mismatch or at the end of a slice.                       *)
(***************************************************************************)
\* number of threads GenerateCoins creates over all its calls
MaxThreads == 2
GroupWorkers == 1..MaxThreads
\* the value randomNumber() yields in every thread
GroupSeed == U32(0, SliceSize - 3)

InitGroup ==
    /\ AsmIdle
    /\ chainTip = 1
    /\ nAdjustedTime = 0
    /\ fReady = TRUE
    /\ network = "main"
    /\ hashPrevBlock = 0
    /\ processed = NotProcessed
    /\ minerThreads = << >>
    /\ generated = NoGenerate
    /\ LocalsUnsetIn(GroupWorkers)
    /\ pc = [ w \in GroupWorkers |-> "absent" ]
    /\ pblock = [ w \in GroupWorkers |-> NoBlock ]
    /\ hashesScanned = [ w \in GroupWorkers |-> U32(0, 0) ]
    /\ solutionHash = [ w \in GroupWorkers |-> ZeroHash ]
    /\ hash = [ w \in GroupWorkers |-> ZeroHash ]
    /\ nNonce = [ w \in GroupWorkers |-> U32(0, 0) ]

NextGroup ==
    \/ \E w \in GroupWorkers : MinerStart(w)
    \/ \E w \in GroupWorkers : SnapshotTip(w)
    \/ \E w \in GroupWorkers : MinerCreateNewBlock(w)
    \/ \E w \in GroupWorkers : IncrementExtraNonce(w)
    \/ \E w \in GroupWorkers : BeginSearch(w) /\ nNonce'[w] = GroupSeed
    \/ \E w \in GroupWorkers : ScanEnter(w)
    \/ \E w \in GroupWorkers : ScanIterate(w)
    \/ \E w \in GroupWorkers : SolutionFound(w)
    \/ \E w \in GroupWorkers : FalsePositive(w) /\ nNonce'[w] = GroupSeed
    \/ \E w \in GroupWorkers : ProcessBlockFound(w)
    \/ \E w \in GroupWorkers : ProcessNewBlock(w)
    \/ \E w \in GroupWorkers : KeepScript(w)
    \/ \E w \in GroupWorkers : RebuildCheck(w)
    \/ \E fGenerate \in BOOLEAN, nThreads \in -1..MaxThreads :
          GenerateCoins(fGenerate, nThreads)
    \/ TipAdvance

SpecGroup == InitGroup /\ [][NextGroup]_vars

(***************************************************************************)
(* Properties of the worker.                                               *)
(***************************************************************************)
\* C6 (stale rejection) as stated: ProcessNewBlock is never called with a
\* block whose hashPrevBlock differs from the tip's hash at the moment of
\* the call.
C6_StaleRejection ==
    processed.called => processed.hashPrevBlock = processed.tipAtCall

\* C6 amended: ProcessNewBlock is called only with a block whose
\* hashPrevBlock was the tip's hash when ProcessBlockFound compared the two
\* under cs_main, and a block that is stale at that comparison is dropped
\* without a call of ProcessNewBlock.  (The tip may advance between the
\* comparison and the call.)
C6_StaleRejectionAtCheck ==
    /\ [](processed.called => processed.hashPrevBlock = processed.tipAtCheck)
    /\ [](\A w \in Workers :
            pc[w] = "submit" => pblock[w].hashPrevBlock = tipAtCheck[w])
    /\ [][ \A w \in Workers :
             (pc[w] = "found" /\ pblock[w].hashPrevBlock # chainTip)
                => pc'[w] \in {"found", "keep"}
         ]_vars

\* a call of ProcessNewBlock after the tip moved past the comparison
C6_Witness ==
    /\ processed.called
    /\ processed.hashPrevBlock = processed.tipAtCheck
    /\ processed.tipAtCall # processed.tipAtCheck

\* C8 (nonce correspondence): when the searcher's candidate is verified as
\* <= target, the nonce handed back is the one the hash was computed at:
\* the block's own PoW hash with that nonce is the candidate, and no worker
\* ends in the HashMismatch error.
C8_NonceCorrespondence ==
    \A w \in Workers :
        /\ Verified(w) => hash[w] = GetPoWHash(HeaderAt(w, nNonce[w]))
        /\ pc[w] # "error_HashMismatch"

\* C11 (reserved-script commitment): a worker calls KeepScript on its
\* coinbase script only after a ProcessBlockFound that succeeded (the block
\* was not stale and ProcessNewBlock accepted it); a worker that ended in a
\* runtime error before any submission has not kept its script.
C11_ReservedScriptCommitment ==
    /\ [][ \A w \in Workers :
              (pc[w] = "keep" /\ pc'[w] # "keep") => ok[w] = "accepted" ]_vars
    /\ [](\A w \in Workers : fKept[w] => ok[w] # "none")

\* C15 (cancellation): once interrupt() has been called on a worker, the
\* worker reaches an interruption point, and ends there, after at most one
\* assembly and one searcher call: with the interrupt pending it never
\* enters the searcher a second time, and it never leaves the readiness
\* sleep or the interruption point of the search loop other than by ending.
C15_CancellationBound ==
    /\ [](\A w \in Workers : scansInterrupted[w] <= 1)
    /\ [][ \A w \in Workers :
              ( /\ interruptRequested[w]
                /\ \/ pc[w] = "check"
                   \/ pc[w] = "wait" /\ ~fReady )
              => pc'[w] \in { pc[w], "interrupted" } ]_vars

\* the positions at which a worker holds the template of its current cycle
HoldsTemplate == { "bump", "search", "scan", "scanloop", "scanned", "check",
                   "found", "submit", "keep" }

\* C16 (template validity and InvalidTemplate): a worker holds a template
\* only if TestBlockValidity accepted it; when TestBlockValidity rejects,
\* CreateNewBlock hands no template back and the worker ends in the
\* runtime-error handler, where it stays: it neither searches nor submits
\* nor keeps its script afterwards, and no call of GenerateCoins sets it
\* going again.
C16_TemplateValidity ==
    /\ [](\A w \in Workers :
            /\ pc[w] \in HoldsTemplate => validationState[w] = "valid"
            /\ validationState[w] = "invalid"
                  <=> pc[w] = "error_TestBlockValidity")
    /\ [][ \A w \in Workers :
              /\ (pc[w] = "create" /\ pc'[w] = "error_TestBlockValidity")
                    => pblock'[w] = pblock[w]
              /\ pc[w] = "error_TestBlockValidity"
                    => /\ pc'[w] = pc[w]
                       /\ pblock'[w] = pblock[w]
                       /\ hashesScanned'[w] = hashesScanned[w]
                       /\ fKept'[w] = fKept[w] ]_vars

\* a worker ended by a rejected template, and GenerateCoins called after
C16_Witness ==
    \E w \in Workers :
        /\ pc[w] = "error_TestBlockValidity"
        /\ validationState[w] = "invalid"
        /\ interruptRequested[w]
        /\ generated.calls = 2

\* C17 (readiness gate): in every cycle of the worker's loop the call of
\* CreateNewBlock comes after an observation, in that cycle, that the node
\* has peers and is past the initial block download: a worker gets to the
\* assembly only from the readiness loop and only by a step that finds the
\* condition true; while the condition is false the worker stays in the
\* loop (or is interrupted in its sleep) and touches neither its template
\* nor its search; it leaves the loop only for the assembly, so it submits
\* nothing either.
C17_ReadinessGate ==
    [][ \A w \in Workers :
          /\ (pc'[w] = "create" /\ pc[w] # "create")
                => (pc[w] = "wait" /\ fReady)
          /\ (pc[w] = "wait" /\ ~fReady)
                => /\ pc'[w] \in { "wait", "interrupted" }
                   /\ pblock'[w] = pblock[w]
                   /\ pindexPrev'[w] = pindexPrev[w]
                   /\ nExtraNonce'[w] = nExtraNonce[w]
                   /\ hashesScanned'[w] = hashesScanned[w]
      ]_vars

\* a worker that went through the gate a second time, after a search that
\* the node's going offline did not stop
C17_Witness ==
    \E w \in Workers :
        /\ pc[w] = "create"
        /\ nExtraNonce[w] >= 1
        /\ fReady = FALSE

\* C24 (time update): UpdateTime never lowers the header's nTime; after it
\* nTime is the larger of the old nTime and max(median time past + 1,
\* adjusted time), and it returns that maximum less the old nTime.  So a
\* template a worker holds has nTime above the median time past of the
\* block it is built on, and the search loop is left for a new assembly
\* exactly when the value returned at line 702 is negative.
C24_TimeUpdate ==
    /\ [](\A w \in Workers :
            pc[w] \in HoldsTemplate
                => pblock[w].nTime > GetMedianTimePast(pblock[w].hashPrevBlock))
    /\ [][ \A w \in Workers :
             ( /\ pc[w] = "check"
               /\ pc'[w] \in { "scan", "wait" }
               /\ pindexPrev[w] = chainTip )
                 => LET nOldTime == pblock[w].nTime
                        nNewTime == Max(GetMedianTimePast(pindexPrev[w]) + 1,
                                        nAdjustedTime)
                    IN  /\ pblock'[w].nTime >= nOldTime
                        /\ pblock'[w].nTime = Max(nOldTime, nNewTime)
                        /\ pc'[w] = "wait" <=> nNewTime - nOldTime < 0 ]_vars

\* a worker back at the head of its loop after a searcher call, with no
\* solution ever found and its tip still the tip: the clock had run
\* backwards
C24_Witness ==
    \E w \in Workers :
        /\ pc[w] = "wait"
        /\ hashesScanned[w] # U32(0, 0)
        /\ ok[w] = "none"
        /\ pindexPrev[w] = chainTip
        /\ pblock[w].nTime > nAdjustedTime

\* C23 (tip-change reaction) as stated: when the tip is no longer the one
\* the worker read for its template, the check after the searcher call
\* starts no further searcher call and sends the worker to a new assembly
\* cycle; after a submission attempt, whether the block was stale, accepted
\* or rejected, the worker goes to a new assembly cycle as well.
C23_TipChangeReaction ==
    [][ \A w \in Workers :
          /\ (pc[w] = "check" /\ pindexPrev[w] # chainTip)
                => pc'[w] \in { "check", "wait" }
          /\ pc[w] = "found" => pc'[w] \in { "found", "submit", "keep" }
          /\ pc[w] = "submit" => pc'[w] \in { "submit", "keep" }
          /\ pc[w] = "keep" => pc'[w] \in { "keep", "wait" } ]_vars

\* C23 amended: the same, but that a worker whose interrupt is pending ends
\* at the check instead, and that on a chain that mines on demand the
\* worker ends after a submission attempt instead of assembling again.
C23_TipChangeReactionOrEnd ==
    [][ \A w \in Workers :
          /\ (pc[w] = "check" /\ pindexPrev[w] # chainTip)
                => /\ pc'[w] \in { "check",
                                    IF interruptRequested[w]
                                    THEN "interrupted" ELSE "wait" }
                   /\ pblock'[w] = pblock[w]
          /\ pc[w] = "found" => pc'[w] \in { "found", "submit", "keep" }
          /\ pc[w] = "submit" => pc'[w] \in { "submit", "keep" }
          /\ pc[w] = "keep"
                => pc'[w] \in { "keep",
                                IF MineBlocksOnDemand
                                THEN "interrupted" ELSE "wait" } ]_vars

\* a worker back at the head of its loop after a searcher call on a
\* template whose time could not run backwards, no solution ever found,
\* no interrupt pending, and the tip no longer the one it had read
C23_Witness ==
    \E w \in Workers :
        /\ pc[w] = "wait"
        /\ hashesScanned[w] # U32(0, 0)
        /\ ok[w] = "none"
        /\ ~interruptRequested[w]
        /\ pindexPrev[w] # chainTip
        /\ pblock[w].hashPrevBlock = pindexPrev[w]
        /\ pblock[w].nTime = GetMedianTimePast(pindexPrev[w]) + 1

\* the positions of a worker between the bump of its template and the
\* next assembly
Searching == { "search", "scan", "scanloop", "scanned", "check", "found",
               "submit", "keep" }

\* C26 (coinbase height under tip races): for every template a worker
\* searches on, the height IncrementExtraNonce wrote into the coinbase
\* scriptSig is one more than the height of the block the template's
\* hashPrevBlock names, also when the tip advances between the worker's
\* read of the tip and the read inside CreateNewBlock.
C26_CoinbaseHeight ==
    \A w \in Workers :
        pc[w] \in Searching
            => pblock[w].nHeight = pblock[w].hashPrevBlock + 1

(***************************************************************************)
(* Properties of the thread group.                                         *)
(***************************************************************************)
\* C12 (stop before start): when GenerateCoins is called while a previous
\* group exists, every thread of the previous group has ended before any
\* thread of the new group runs: no thread outside the current group is
\* still running once a thread of the current group has taken a step.
C12_StopBeforeStart ==
    \A old \in GroupWorkers, new \in GroupWorkers :
        ( /\ Running(old)
          /\ old \notin GroupOf(minerThreads)
          /\ new \in GroupOf(minerThreads) )
        => pc[new] = "start"

\* C13 (supervisor worker count): after GenerateCoins(false, any) or
\* GenerateCoins(any, 0) the group is absent and HowManyMiningThreads() is
\* 0, every thread created before has had interrupt() and no thread was
\* created; after GenerateCoins(true, n) with n > 0 the group holds exactly
\* n threads, all of them new; a negative number of threads stands for the
\* number of cores in both rules.
C13_SupervisorWorkerCount ==
    [][ generated'.calls # generated.calls =>
          LET n == IF generated'.nThreads < 0 THEN GetNumCores
                   ELSE generated'.nThreads
              before == { w \in GroupWorkers : pc[w] # "absent" }
              after == { w \in GroupWorkers : pc'[w] # "absent" }
          IN  /\ \A w \in before : interruptRequested'[w]
              /\ IF ~generated'.fGenerate \/ n = 0
                 THEN /\ minerThreads' = << >>
                      /\ HowManyMiningThreads' = 0
                      /\ after = before
                 ELSE /\ minerThreads' # << >>
                      /\ HowManyMiningThreads' = n
                      /\ minerThreads'[1] = after \ before
                      /\ \A w \in minerThreads'[1] :
                            pc'[w] = "start" /\ ~interruptRequested'[w]
      ]_vars

\* a call that stops the mining while a thread of the group is running,
\* after a call that created the group
C13_Witness ==
    /\ generated.calls = 2
    /\ ~generated.fGenerate
    /\ minerThreads = << >>
    /\ \E w \in GroupWorkers : Running(w) /\ interruptRequested[w]

\* C14 (per-worker extra-nonce reset): for every worker, also with several
\* workers running, a bump of a template whose hashPrevBlock differs from
\* that of the last template the same worker bumped yields nExtraNonce = 1,
\* and a bump on the same hashPrevBlock adds exactly 1 to the worker's
\* nExtraNonce, whatever the other workers bump in between.
C14_PerWorkerExtraNonce ==
    [][ \A w \in GroupWorkers :
          (pc[w] = "bump" /\ pc'[w] = "search") =>
             nExtraNonce'[w] = IF pblock[w].hashPrevBlock # lastPrev[w]
                               THEN 1 ELSE nExtraNonce[w] + 1
      ]_vars

====
